---- MODULE Spec2Model ----
(***************************************************************************)
(* A model of the ray tracer's core: the intersection list, the scene      *)
(* graph (objects, groups, bounding boxes, subdivision) and the recursive  *)
(* shading of World::color_at.                                             *)
(*                                                                         *)
(* Numbers.  The program computes in f64.  The model computes in integers  *)
(* on a grid: a scene is looked at in the cross-section y = 0, with the    *)
(* axes x (index 1) and z (index 2); rays are parallel to an axis, so the  *)
(* direction components are -1, 0 or 1 and every parameter t the program   *)
(* computes on such a scene is an integer.  The f64 values +inf, -inf and  *)
(* NaN are kept as three distinguished values with the IEEE-754 rules the  *)
(* code relies on.  The y slab of every box of the model holds y = 0, so   *)
(* check_axis yields (-inf, +inf) for y, or the NaN pair f64::max and      *)
(* f64::min pass over for the flat box of a Plane, and y is left out.      *)
(***************************************************************************)
EXTENDS Integers, Sequences, FiniteSets, TLC

VARIABLES
    xs,        \* Intersections under test: the Vec<Intersection> of an Intersections
    xsOp,      \* the last operation applied to xs, with its input and its result
    pool,      \* the objects built so far through the public construction operations
    gOp,       \* the last scene-graph operation, with what it read and returned; for a
               \* running divide, the calls of divide still to be made
    world,     \* the World being rendered: objects and lights
    camera,    \* the Camera: its pixel rays, background and max_recursions argument
    stack,     \* the call stack of color_at / shade_hit frames of the running pixel
    ret,       \* the Option<Color> the last finished color_at call returned
    canvas,    \* the Canvas pixels, row-major
    pixel,     \* the linear index of the pixel being rendered
    trace,     \* ghost: calls made so far for the running pixel (depth, casts, underflow)
    tasks,     \* Camera::render: the closure run of every pixel slot of the parallel loop
    writes,    \* ghost: for every canvas slot, the tasks that stored to it, in order
    returned,  \* the Canvas the last finished Camera::render returned, with its inputs
    seq,       \* a Sequence under test, with the calls of next() made on it so far
    lit,       \* the last call of intensity_at or Material::lighting: inputs and result
    bx,        \* a BoundingBox under test, with the last operation applied to it
    tf,        \* a Transform under test: matrix, cached inverse, operations so far
    cv,        \* a Canvas under test, with the last operation applied to it
    yaml       \* the YamlLoader: the document, what is loaded so far, the outcome

xsVars == <<xs, xsOp>>
groupVars == <<pool, gOp>>
worldVars == <<world, camera, stack, ret, canvas, pixel, trace>>
renderVars == <<tasks, writes, returned>>
lightVars == <<seq, lit>>
miscVars == <<bx, tf, cv, yaml>>
restVars == <<renderVars, lightVars, miscVars>>
vars == <<xs, xsOp, pool, gOp, world, camera, stack, ret, canvas, pixel, trace, tasks, writes,
          returned, seq, lit, bx, tf, cv, yaml>>

-----------------------------------------------------------------------------
(* f64 values: finite grid integers, +inf, -inf and NaN. *)

Inf == 1000000
NegInf == -Inf
NaN == Inf + Inf

IsNaN(a) == a = NaN
IsFinite(a) == a > NegInf /\ a < Inf

\* a < b, a > b on f64: false as soon as one side is NaN
FLt(a, b) == ~IsNaN(a) /\ ~IsNaN(b) /\ a < b
FGt(a, b) == ~IsNaN(a) /\ ~IsNaN(b) /\ a > b
FGe(a, b) == ~IsNaN(a) /\ ~IsNaN(b) /\ a >= b
FLe(a, b) == ~IsNaN(a) /\ ~IsNaN(b) /\ a <= b

\* f64::min / f64::max: the other argument when one is NaN
FMin(a, b) == IF IsNaN(a) THEN b ELSE IF IsNaN(b) THEN a ELSE IF a < b THEN a ELSE b
FMax(a, b) == IF IsNaN(a) THEN b ELSE IF IsNaN(b) THEN a ELSE IF a > b THEN a ELSE b

\* a - b with b finite
FSub(a, b) == IF IsNaN(a) THEN NaN ELSE IF IsFinite(a) THEN a - b ELSE a

\* a * d and a / d for d in {-1, 1}
FMulSign(a, d) == IF IsNaN(a) THEN NaN ELSE a * d

\* a * f64::INFINITY
FMulInf(a) == IF IsNaN(a) \/ a = 0 THEN NaN ELSE IF a > 0 THEN Inf ELSE NegInf

Abs(a) == IF a < 0 THEN -a ELSE a
Sign(a) == IF a < 0 THEN -1 ELSE IF a > 0 THEN 1 ELSE 0

Axes == {1, 2}

-----------------------------------------------------------------------------
(* src/transformations.rs: a Transform.  The model's matrices are a scale  *)
(* followed by a translation, x |-> s[a] * x + t[a] on each axis a, with   *)
(* s[a] > 0; products of such matrices are of the same form.               *)

Vec(a, b) == <<a, b>>

Identity == [s |-> Vec(1, 1), t |-> Vec(0, 0)]

\* DMat4::from_translation / DMat4::from_scale
Translation(x, z) == [s |-> Vec(1, 1), t |-> Vec(x, z)]
Scaling(x, z) == [s |-> Vec(x, z), t |-> Vec(0, 0)]

\* the matrix product a * b (b acts first)
MatMul(a, b) ==
    [s |-> [i \in Axes |-> a.s[i] * b.s[i]],
     t |-> [i \in Axes |-> a.s[i] * b.t[i] + a.t[i]]]

\* Transform::apply: Transform::from_matrix(other.matrix * self.matrix)
TransformApply(self, other) == MatMul(other, self)

\* DMat4::transform_point3 on a point of the model: a point of the empty box has
\* every component infinite and 0 * inf = NaN poisons every sum
TransformPoint(m, p) ==
    IF \A i \in Axes : IsFinite(p[i])
    THEN [i \in Axes |-> m.s[i] * p[i] + m.t[i]]
    ELSE [i \in Axes |-> NaN]

-----------------------------------------------------------------------------
(* src/ray.rs *)

Ray(origin, direction) == [origin |-> origin, direction |-> direction]

\* Ray::at
RayAt(ray, t) == [i \in Axes |-> ray.origin[i] + ray.direction[i] * t]

\* Ray::transform by the inverse of m: origin (o - t) / s, direction d / s.  The
\* quotients are kept as numerators over the common denominators den = m.s
RayToLocal(ray, m) ==
    [on |-> [i \in Axes |-> ray.origin[i] - m.t[i]],
     dn |-> ray.direction,
     den |-> m.s]

-----------------------------------------------------------------------------
(* src/bounds.rs: BoundingBox *)

BoundingBox(min, max) == [min |-> min, max |-> max]

\* BoundingBox::default: the empty box
EmptyBox == BoundingBox(Vec(Inf, Inf), Vec(NegInf, NegInf))

AddPoint(box, p) ==
    [min |-> [i \in Axes |-> FMin(box.min[i], p[i])],
     max |-> [i \in Axes |-> FMax(box.max[i], p[i])]]

Merge(box, other) == AddPoint(AddPoint(box, other.min), other.max)

ContainsPoint(box, p) ==
    /\ \A i \in Axes : FGe(p[i], box.min[i])
    /\ \A i \in Axes : FLe(p[i], box.max[i])

ContainsBox(box, other) == ContainsPoint(box, other.min) /\ ContainsPoint(box, other.max)

\* BoundingBox::transform: the box of the transformed corners
BoxTransform(box, m) ==
    LET p0 == box.min
        p1 == Vec(box.max[1], box.min[2])
        p4 == Vec(box.min[1], box.max[2])
        p7 == box.max
    IN  AddPoint(AddPoint(AddPoint(AddPoint(EmptyBox,
            TransformPoint(m, p0)), TransformPoint(m, p1)),
            TransformPoint(m, p4)), TransformPoint(m, p7))

\* check_axis of BoundingBox::intersects; direction is -1, 0 or 1
BoxCheckAxis(origin, direction, min, max) ==
    LET tmin_numerator == FSub(min, origin)
        tmax_numerator == FSub(max, origin)
        tmin == IF direction # 0 THEN FMulSign(tmin_numerator, direction)
                ELSE FMulInf(tmin_numerator)
        tmax == IF direction # 0 THEN FMulSign(tmax_numerator, direction)
                ELSE FMulInf(tmax_numerator)
    IN  IF FGt(tmin, tmax) THEN <<tmax, tmin>> ELSE <<tmin, tmax>>

\* BoundingBox::intersects
BoxIntersects(box, ray) ==
    LET x == BoxCheckAxis(ray.origin[1], ray.direction[1], box.min[1], box.max[1])
        z == BoxCheckAxis(ray.origin[2], ray.direction[2], box.min[2], box.max[2])
        tmin == FMax(x[1], z[1])
        tmax == FMin(x[2], z[2])
    IN  FLt(tmin, tmax)

\* BoundingBox::split: halves the box along its longest axis (x on a tie).  The
\* boxes that are split have even finite coordinates, so the midpoint is exact
BoxSplit(box) ==
    LET finite == \A i \in Axes : IsFinite(box.min[i]) /\ IsFinite(box.max[i])
        dx == box.max[1] - box.min[1]
        dz == box.max[2] - box.min[2]
        ax == IF dx >= dz THEN 1 ELSE 2
        mid == IF finite THEN box.min[ax] + ((box.max[ax] - box.min[ax]) \div 2)
               ELSE NaN
        mid_min == [box.min EXCEPT ![ax] = mid]
        mid_max == [box.max EXCEPT ![ax] = mid]
    IN  <<BoundingBox(box.min, mid_max), BoundingBox(mid_min, box.max)>>

-----------------------------------------------------------------------------
(* src/material.rs: Material.  Colours are one channel; ambient, diffuse   *)
(* and specular are in tenths, the refractive index in tenths, reflective  *)
(* and transparency are 0 or 1.                                            *)

Material(color, reflective, transparency, refractive_index) ==
    [color |-> color, ambient |-> 1, diffuse |-> 9, specular |-> 9,
     reflective |-> reflective, transparency |-> transparency,
     refractive_index |-> refractive_index]

\* Material::default
DefaultMaterial == Material(1, 0, 0, 10)

-----------------------------------------------------------------------------
(* src/shapes: the Shape variants of the model.  A Cube is the unit cube.  *)
(* A Triangle has the vertices p1 = (x0, -1, z), p2 = (x1, -1, z) and      *)
(* p3 = (x0, 1, z); it lies in the plane z = const of its local frame.     *)
(* A Plane is the plane y = 0, which holds every ray of the model.         *)

Cube == [kind |-> "Cube", x0 |-> 0, x1 |-> 0, z |-> 0, objects |-> <<>>]
Plane == [kind |-> "Plane", x0 |-> 0, x1 |-> 0, z |-> 0, objects |-> <<>>]
Triangle(x0, x1, z) == [kind |-> "Triangle", x0 |-> x0, x1 |-> x1, z |-> z, objects |-> <<>>]
Group(objects) == [kind |-> "Group", x0 |-> 0, x1 |-> 0, z |-> 0, objects |-> objects]
Mesh(triangles) == [kind |-> "Mesh", x0 |-> 0, x1 |-> 0, z |-> 0, objects |-> triangles]

IsContainer(shape) == shape.kind \in {"Group", "Mesh"}

Intersection(t, object) == [t |-> t, object |-> object]

\* Cube::bounds
CubeBounds == BoundingBox(Vec(-1, -1), Vec(1, 1))

\* Plane::bounds: unbounded in x and z
PlaneBounds == BoundingBox(Vec(NegInf, NegInf), Vec(Inf, Inf))

\* Triangle::bounds
TriangleBounds(tri) == BoundingBox(Vec(tri.x0, tri.z), Vec(tri.x1, tri.z))

\* Group::bounds: the fold of merge over the children's cached boxes
RECURSIVE GroupBoundsFrom(_, _, _)
GroupBoundsFrom(objects, i, acc) ==
    IF i > Len(objects) THEN acc
    ELSE GroupBoundsFrom(objects, i + 1, Merge(acc, objects[i].bounds))

GroupBounds(objects) == GroupBoundsFrom(objects, 1, EmptyBox)

\* <Shape as Hittable>::bounds
ShapeBounds(shape) ==
    CASE shape.kind = "Cube" -> CubeBounds
      [] shape.kind = "Plane" -> PlaneBounds
      [] shape.kind = "Triangle" -> TriangleBounds(shape)
      [] OTHER -> GroupBounds(shape.objects)

\* check_axis of Cube::intersect on the local ray: the numerators -1 - origin
\* and 1 - origin are taken times den, the quotient by the direction dn / den
\* cancels den
CubeCheckAxis(on, dn, den) ==
    LET tmin_numerator == -den - on
        tmax_numerator == den - on
        tmin == IF dn # 0 THEN tmin_numerator * dn ELSE FMulInf(tmin_numerator)
        tmax == IF dn # 0 THEN tmax_numerator * dn ELSE FMulInf(tmax_numerator)
    IN  IF FGt(tmin, tmax) THEN <<tmax, tmin>> ELSE <<tmin, tmax>>

\* Cube::intersect
CubeIntersect(local, object) ==
    LET x == CubeCheckAxis(local.on[1], local.dn[1], local.den[1])
        z == CubeCheckAxis(local.on[2], local.dn[2], local.den[2])
        tmin == FMax(x[1], z[1])
        tmax == FMin(x[2], z[2])
    IN  IF FGt(tmin, tmax) THEN <<>>
        ELSE <<Intersection(tmin, object), Intersection(tmax, object)>>

\* Plane::intersect: a ray whose direction has |y| <= f64::EPSILON gets no
\* intersection; dy is the y component of the local direction
PlaneIntersect(dy, object) ==
    IF Abs(dy) > 0 THEN <<Intersection(0, object)>> ELSE <<>>

\* Triangle::intersect (Moeller-Trumbore) on the local ray.  With e1 = (x1 - x0, 0, 0)
\* and e2 = (0, 2, 0): det = -2 e1.x dz, u = (x - x0) / e1.x, v = 1/2 and
\* t = (z - origin.z) / dz, each written over the local ray's denominators
TriangleIntersect(tri, local, object) ==
    LET e1x == tri.x1 - tri.x0
        det == -2 * e1x * local.dn[2]
        uNum == local.on[1] - tri.x0 * local.den[1]
        uDen == e1x * local.den[1]
    IN  IF det = 0 THEN <<>>
        ELSE IF uNum < 0 \/ uNum > uDen THEN <<>>
        ELSE IF 2 * uNum + uDen > 2 * uDen THEN <<>>
        ELSE <<Intersection((tri.z * local.den[2] - local.on[2]) * local.dn[2], object)>>

-----------------------------------------------------------------------------
(* src/object.rs: Object *)

\* Object::new
ObjectNew(shape) ==
    [shape |-> shape, material |-> DefaultMaterial, transform |-> Identity,
     shadow |-> TRUE, bounds |-> ShapeBounds(shape)]

\* Object::with_shadow
WithShadow(object, shadow) == [object EXCEPT !.shadow = shadow]

\* Object::with_material: a Mesh hands the material to its triangles as well
WithMaterial(object, material) ==
    [object EXCEPT
        !.material = material,
        !.shape = IF object.shape.kind = "Mesh"
                  THEN Mesh([i \in 1..Len(object.shape.objects) |->
                                [object.shape.objects[i] EXCEPT !.material = material]])
                  ELSE object.shape]

\* Object::with_transform
WithTransform(object, transform) ==
    [object EXCEPT !.bounds = BoxTransform(ShapeBounds(object.shape), transform),
                   !.transform = transform]

\* Object::set_transform
SetTransform(object, transform) ==
    [object EXCEPT !.bounds = BoxTransform(ShapeBounds(object.shape), transform),
                   !.transform = transform]

\* <Object as Transformable>::apply_transform
RECURSIVE ApplyTransform(_, _)
ApplyTransform(object, transform) ==
    IF IsContainer(object.shape)
    THEN LET objects == [i \in 1..Len(object.shape.objects) |->
                            ApplyTransform(object.shape.objects[i], transform)]
         IN  SetTransform([object EXCEPT !.shape.objects = objects], Identity)
    ELSE SetTransform(object, TransformApply(object.transform, transform))

\* Object::intersect and the Hittable::intersect of its shape.  The result is the
\* intersection list with, as ghost, the children whose intersect was called, by
\* their path of child indices from the object the call started on.  A container
\* hands its children the ray in its own frame; the model gives containers unit
\* scale, so that ray stays on the grid
RECURSIVE ObjectIntersectAt(_, _, _)
RECURSIVE ChildrenIntersect(_, _, _, _, _)
ChildrenIntersect(objects, ray, path, i, acc) ==
    IF i > Len(objects) THEN acc
    ELSE LET r == ObjectIntersectAt(objects[i], ray, Append(path, i))
         IN  ChildrenIntersect(objects, ray, path, i + 1,
                 [xs |-> acc.xs \o r.xs,
                  calls |-> acc.calls \o <<Append(path, i)>> \o r.calls])

\* Group::intersect without the test of the box
GroupIntersectNoCull(objects, ray, this, path) ==
    ChildrenIntersect(objects, ray, path, 1, [xs |-> <<>>, calls |-> <<>>])

\* Group::intersect (Mesh::intersect delegates to it)
GroupIntersect(objects, ray, this, path) ==
    IF BoxIntersects(this.bounds, ray)
    THEN ChildrenIntersect(objects, ray, path, 1, [xs |-> <<>>, calls |-> <<>>])
    ELSE [xs |-> <<>>, calls |-> <<>>]

\* Object::intersect with the intersections of a container referring to it
ObjectIntersectAtContainer(object, ray, path) ==
    IF IsContainer(object.shape)
    THEN LET r == GroupIntersect(object.shape.objects,
                      Ray([i \in Axes |-> ray.origin[i] - object.transform.t[i]],
                          ray.direction),
                      object, path)
         IN  [r EXCEPT !.xs = [i \in 1..Len(r.xs) |-> [r.xs[i] EXCEPT !.object = object]]]
    ELSE LET local == RayToLocal(ray, object.transform)
         IN  [xs |-> CASE object.shape.kind = "Cube" -> CubeIntersect(local, object)
                       [] object.shape.kind = "Plane" -> PlaneIntersect(0, object)
                       [] OTHER -> TriangleIntersect(object.shape, local, object),
              calls |-> <<>>]

ObjectIntersectAt(object, ray, path) ==
    IF IsContainer(object.shape)
    THEN GroupIntersect(object.shape.objects,
             Ray([i \in Axes |-> ray.origin[i] - object.transform.t[i]], ray.direction),
             object, path)
    ELSE LET local == RayToLocal(ray, object.transform)
         IN  [xs |-> CASE object.shape.kind = "Cube" -> CubeIntersect(local, object)
                       [] object.shape.kind = "Plane" -> PlaneIntersect(0, object)
                       [] OTHER -> TriangleIntersect(object.shape, local, object),
              calls |-> <<>>]

ObjectIntersect(object, ray) == ObjectIntersectAt(object, ray, <<>>)

-----------------------------------------------------------------------------
(* src/shapes/group.rs: subdivision *)

\* Group::partition_children: one pass over the children; the result is the left
\* and right buckets and what stays on the node
RECURSIVE PartitionFrom(_, _, _, _, _)
PartitionFrom(objects, left, right, i, acc) ==
    IF i > Len(objects) THEN acc
    ELSE IF ContainsBox(left, objects[i].bounds)
         THEN PartitionFrom(objects, left, right, i + 1,
                  [acc EXCEPT !.left = Append(@, objects[i])])
    ELSE IF ContainsBox(right, objects[i].bounds)
         THEN PartitionFrom(objects, left, right, i + 1,
                  [acc EXCEPT !.right = Append(@, objects[i])])
    ELSE PartitionFrom(objects, left, right, i + 1,
             [acc EXCEPT !.middle = Append(@, objects[i])])

\* partition_children leaving on the node the children it has put in a bucket
PartitionChildrenKeeping(objects) ==
    LET halves == BoxSplit(GroupBounds(objects))
    IN  [PartitionFrom(objects, halves[1], halves[2], 1,
             [left |-> <<>>, right |-> <<>>, middle |-> <<>>])
         EXCEPT !.middle = objects]

PartitionChildren(objects) ==
    LET halves == BoxSplit(GroupBounds(objects))
    IN  PartitionFrom(objects, halves[1], halves[2], 1,
            [left |-> <<>>, right |-> <<>>, middle |-> <<>>])

\* make_subgroup putting the subgroup in front of the children
MakeSubgroupFront(objects, sub) == <<ObjectNew(Group(sub))>> \o objects

\* Group::make_subgroup
MakeSubgroup(objects, sub) == Append(objects, ObjectNew(Group(sub)))

\* Group::divide, with Shape::divide, Mesh::divide and Object::divide
RECURSIVE GroupDivide(_, _)
ShapeDivide(shape, threshold) ==
    IF IsContainer(shape)
    THEN [shape EXCEPT !.objects = GroupDivide(shape.objects, threshold)]
    ELSE shape

ObjectDivide(object, threshold) ==
    [object EXCEPT !.shape = ShapeDivide(object.shape, threshold)]

GroupDivide(objects, threshold) ==
    LET parts == PartitionChildren(objects)
        withLeft == IF parts.left # <<>> THEN MakeSubgroup(parts.middle, parts.left)
                    ELSE parts.middle
        withRight == IF parts.right # <<>> THEN MakeSubgroup(withLeft, parts.right)
                     ELSE withLeft
        after == IF threshold <= Len(objects) THEN withRight ELSE objects
    IN  [i \in 1..Len(after) |-> ObjectDivide(after[i], threshold)]

-----------------------------------------------------------------------------
(* src/intersection.rs: Intersections *)

\* <Intersection as Ord>::cmp
Cmp(a, b) == IF a.t < b.t THEN "Less" ELSE IF a.t > b.t THEN "Greater" ELSE "Equal"

\* Intersections::sort: Vec::sort is a stable sort by cmp; it is computed here by
\* insertion, each element going behind the elements that are not Greater
RECURSIVE SortInsert(_, _)
SortInsert(sorted, x) ==
    IF sorted = <<>> THEN <<x>>
    ELSE IF Cmp(sorted[Len(sorted)], x) = "Greater"
         THEN Append(SortInsert(SubSeq(sorted, 1, Len(sorted) - 1), x), sorted[Len(sorted)])
         ELSE Append(sorted, x)

RECURSIVE SortFrom(_, _, _)
SortFrom(list, i, acc) ==
    IF i > Len(list) THEN acc ELSE SortFrom(list, i + 1, SortInsert(acc, list[i]))

Sort(list) == SortFrom(list, 1, <<>>)

\* a mutant of StandardHit: t > 0
StandardHitStrict(i) == i.t > 0

\* StandardHit and ShadowHit: hit_predicate and hit_index_predicate
StandardHit(i) == i.t >= 0
ShadowHit(i) == i.object.shadow /\ i.t >= 0

\* HitPredicate: the predicate of the implementation named by predicate
Accepts(predicate, i) ==
    IF predicate = "StandardHit" THEN StandardHit(i) ELSE ShadowHit(i)

\* Iterator::position: the index of the first element the predicate accepts, 0 for
\* None.  Indices are 1-based: index k of the model is index k - 1 of the Vec
RECURSIVE Position(_, _, _)
Position(list, predicate, i) ==
    IF i > Len(list) THEN 0
    ELSE IF Accepts(predicate, list[i]) THEN i
    ELSE Position(list, predicate, i + 1)

None == [some |-> FALSE, value |-> 0]
Some(v) == [some |-> TRUE, value |-> v]

\* Intersections::hit_index
HitIndex(list, predicate) ==
    LET p == Position(list, predicate, 1) IN IF p = 0 THEN None ELSE Some(p)

\* Intersections::hit: Iterator::find
Hit(list, predicate) ==
    LET p == Position(list, predicate, 1) IN IF p = 0 THEN None ELSE Some(list[p])

\* the n1, n2 scan of IntersectionInfos::new; st is (n1, n2, containers)
VacuumIndex == 10

\* containers.iter().position(|&object| object == i.object), 0 for None
RECURSIVE ContainerPositionFrom(_, _, _)
ContainerPositionFrom(containers, object, i) ==
    IF i > Len(containers) THEN 0
    ELSE IF containers[i] = object THEN i
    ELSE ContainerPositionFrom(containers, object, i + 1)

ContainerPosition(containers, object) == ContainerPositionFrom(containers, object, 1)

\* a mutant of RemoveAt: the containers as a stack, popped on every exit
RemoveLast(list, pos) == SubSeq(list, 1, Len(list) - 1)

\* Vec::remove
RemoveAt(list, pos) == SubSeq(list, 1, pos - 1) \o SubSeq(list, pos + 1, Len(list))

LastIndex(containers) ==
    IF containers = <<>> THEN VacuumIndex
    ELSE containers[Len(containers)].material.refractive_index

RECURSIVE RefractiveScan(_, _, _, _)
RefractiveScan(list, intersection_index, current_index, st) ==
    IF current_index > Len(list) THEN st
    ELSE LET i == list[current_index]
             n1 == IF current_index = intersection_index THEN LastIndex(st.containers)
                   ELSE st.n1
             pos == ContainerPosition(st.containers, i.object)
             containers == IF pos # 0 THEN RemoveAt(st.containers, pos)
                           ELSE Append(st.containers, i.object)
             n2 == IF current_index = intersection_index THEN LastIndex(containers)
                   ELSE st.n2
         IN  RefractiveScan(list, intersection_index, current_index + 1,
                 [n1 |-> n1, n2 |-> n2, containers |-> containers])

RefractiveIndices(list, intersection_index) ==
    LET st == RefractiveScan(list, intersection_index, 1,
                  [n1 |-> 0, n2 |-> 0, containers |-> <<>>])
    IN  <<st.n1, st.n2>>

-----------------------------------------------------------------------------
(* src/world.rs: World::intersects *)

World(objects, lights) == [objects |-> objects, lights |-> lights]

RECURSIVE WorldAppendFrom(_, _, _, _)
WorldAppendFrom(objects, ray, i, acc) ==
    IF i > Len(objects) THEN acc
    ELSE WorldAppendFrom(objects, ray, i + 1, acc \o ObjectIntersect(objects[i], ray).xs)

WorldIntersects(w, ray) == Sort(WorldAppendFrom(w.objects, ray, 1, <<>>))

-----------------------------------------------------------------------------
(* Scenes and inputs of the model *)

\* a cube with the given z extent [tz - sz, tz + sz], x extent [-4, 4]
Glass(sz, tz, refractive_index) ==
    WithMaterial(WithTransform(ObjectNew(Cube), MatMul(Translation(0, tz), Scaling(4, sz))),
                 Material(1, 0, 1, refractive_index))

\* the spheres A, B, C of finding_n1_and_n2_at_various_intersections, as cubes on
\* a grid of a quarter unit: A contains B and C, which overlap
NestedGlass == <<Glass(8, 0, 15), Glass(4, -1, 20), Glass(4, 1, 25)>>

\* two cubes that overlap without containing each other, and two apart
OverlapGlass == <<Glass(4, -2, 15), Glass(4, 2, 20)>>
ApartGlass == <<Glass(2, -4, 15), Glass(2, 4, 20)>>

MaxLen == 3
TVals == {-1, 0, 1, 2}

XsObjects ==
    {Glass(4, 0, 15), WithShadow(Glass(4, 0, 20), FALSE)}

XsScenes == {NestedGlass, OverlapGlass, ApartGlass}
XsRays == {Ray(Vec(0, z), Vec(0, d)) : z \in {-16, 0, 16}, d \in {-1, 1}}

NoXsOp == [name |-> "new", input |-> <<>>, index |-> 0, hit |-> None,
           hit_index |-> None, n |-> <<0, 0>>]


\* Intersections::push
XsPush ==
    /\ Len(xs) < MaxLen
    /\ \E t \in TVals, o \in XsObjects :
         xs' = Append(xs, Intersection(t, o))
    /\ xsOp' = [NoXsOp EXCEPT !.name = "push", !.input = xs]
    /\ UNCHANGED <<groupVars, worldVars, restVars>>

\* World::intersects: the sorted intersections of a scene's objects with a ray
XsFromWorld ==
    /\ xs = <<>>
    /\ \E sc \in XsScenes, r \in XsRays :
         xs' = WorldIntersects(World(sc, <<>>), r)
    /\ xsOp' = [NoXsOp EXCEPT !.name = "intersects"]
    /\ UNCHANGED <<groupVars, worldVars, restVars>>

\* Intersections::sort
XsSort ==
    /\ xs' = Sort(xs)
    /\ xsOp' = [NoXsOp EXCEPT !.name = "sort", !.input = xs]
    /\ UNCHANGED <<groupVars, worldVars, restVars>>

\* Intersections::hit and hit_index with StandardHit
XsHit ==
    /\ xsOp' = [NoXsOp EXCEPT !.name = "hit", !.input = xs,
                              !.hit = Hit(xs, "StandardHit"),
                              !.hit_index = HitIndex(xs, "StandardHit")]
    /\ UNCHANGED <<xs, groupVars, worldVars, restVars>>

\* Intersections::hit and hit_index with ShadowHit
XsShadowHit ==
    /\ xsOp' = [NoXsOp EXCEPT !.name = "shadow_hit", !.input = xs,
                              !.hit = Hit(xs, "ShadowHit"),
                              !.hit_index = HitIndex(xs, "ShadowHit")]
    /\ UNCHANGED <<xs, groupVars, worldVars, restVars>>

\* IntersectionInfos::new: the pair (n1, n2) for the intersection at an index
XsInfos ==
    /\ \E k \in 1..Len(xs) :
         xsOp' = [NoXsOp EXCEPT !.name = "infos", !.input = xs, !.index = k,
                                !.n = RefractiveIndices(xs, k)]
    /\ UNCHANGED <<xs, groupVars, worldVars, restVars>>

-----------------------------------------------------------------------------
(* The parts of the state a specification does not run stay as constructed *)

NoGOp == [name |-> "new", target |-> 0, before |-> <<>>, threshold |-> 0,
          ray |-> <<>>, xs |-> <<>>, calls |-> <<>>, pending |-> <<>>]
NoTrace == [op |-> "new", ray |-> <<>>, remaining |-> 0, point |-> <<>>, light |-> <<>>,
            shadowed |-> FALSE, written |-> {}, casts |-> 0,
            last |-> [frame |-> <<>>, value |-> None, pixel |-> 0]]

XsIdle == xs = <<>> /\ xsOp = NoXsOp
GroupIdle == pool = <<>> /\ gOp = NoGOp
\* the camera of the model: Camera::new and with_background
Camera(width, height, background) ==
    [width |-> width, height |-> height, background |-> background]

WorldIdle ==
    /\ world = World(<<>>, <<>>)
    /\ camera = Camera(3, 1, [n |-> 0, d |-> 1])
    /\ stack = <<>>
    /\ ret = None
    /\ canvas = <<>>
    /\ pixel = 0
    /\ trace = NoTrace

RenderIdle == tasks = <<>> /\ writes = <<>> /\ returned = None
NoSeq == [built |-> FALSE, self |-> [values |-> <<>>, index |-> 0], calls |-> 0,
          result |-> None, panicked |-> FALSE]
NoLit == [op |-> "none"]
LightIdle == seq = NoSeq /\ lit = NoLit
NoCall == [op |-> "none"]
MiscIdle == bx = NoCall /\ tf = NoCall /\ cv = NoCall /\ yaml = NoCall
RestIdle == RenderIdle /\ LightIdle /\ MiscIdle

-----------------------------------------------------------------------------
(* The intersection list on its own *)

XsNext ==
    \/ XsPush
    \/ XsFromWorld
    \/ XsSort
    \/ XsHit
    \/ XsShadowHit
    \/ XsInfos

\* Intersections::new
XsInit == XsIdle /\ GroupIdle /\ WorldIdle /\ RestIdle

SpecXs == XsInit /\ [][XsNext]_vars

-----------------------------------------------------------------------------
(* Properties of the intersection list *)

IsSorted(list) == \A i \in 1..(Len(list) - 1) : list[i].t <= list[i + 1].t

\* the number of times e occurs in list
Count(list, e) == Cardinality({i \in 1..Len(list) : list[i] = e})

IsPermutation(a, b) ==
    /\ Len(a) = Len(b)
    /\ \A i \in 1..Len(a) : Count(a, a[i]) = Count(b, a[i])

\* C1: sort() returns a permutation of the list in non-decreasing t; on a sorted
\* list hit(StandardHit) is the element and hit_index(StandardHit) the index of
\* the smallest t among the elements with t >= 0, and both are None exactly when
\* no element has t >= 0.
C1_SortAndHit ==
    /\ xsOp.name = "sort" => IsSorted(xs) /\ IsPermutation(xs, xsOp.input)
    /\ (xsOp.name = "hit" /\ IsSorted(xs)) =>
         LET nonneg == {i \in 1..Len(xs) : xs[i].t >= 0}
         IN  /\ xsOp.hit.some = (nonneg # {})
             /\ xsOp.hit_index.some = (nonneg # {})
             /\ nonneg # {} =>
                  /\ xsOp.hit_index.value \in nonneg
                  /\ \A i \in nonneg : xs[xsOp.hit_index.value].t <= xs[i].t
                  /\ xsOp.hit.value = xs[xsOp.hit_index.value]

\* C1 witness: a hit was taken on a sorted list that holds a negative t in front
\* of two non-negative ones
C1_Witness ==
    /\ xsOp.name = "hit"
    /\ IsSorted(xs)
    /\ Len(xs) = 3
    /\ xs[1].t < 0
    /\ xs[2].t < xs[3].t
    /\ xsOp.hit_index = Some(2)

\* the container list after the first j intersections of list (C3)
RECURSIVE ContainersAfter(_, _)
ContainersAfter(list, j) ==
    IF j = 0 THEN <<>>
    ELSE LET c == ContainersAfter(list, j - 1)
             o == list[j].object
             Other(x) == x # o
         IN  IF \E p \in 1..Len(c) : c[p] = o THEN SelectSeq(c, Other) ELSE Append(c, o)

\* every object of the list occurs exactly twice: it is entered once and left once
Paired(list) ==
    /\ IsSorted(list)
    /\ \A i \in 1..Len(list) :
         Cardinality({j \in 1..Len(list) : list[j].object = list[i].object}) = 2

Entry(list, o) == CHOOSE i \in 1..Len(list) :
    list[i].object = o /\ \A j \in 1..(i - 1) : list[j].object # o
Exit(list, o) == CHOOSE i \in 1..Len(list) :
    list[i].object = o /\ \A j \in (i + 1)..Len(list) : list[j].object # o

\* the refractive index of the medium behind intersection j of a paired list: that
\* of the object entered last among the objects the ray is inside of there
MediumAfter(list, j) ==
    LET inside == {o \in {list[i].object : i \in 1..Len(list)} :
                      Entry(list, o) <= j /\ j < Exit(list, o)}
    IN  IF inside = {} THEN VacuumIndex
        ELSE (CHOOSE o \in inside :
                 \A q \in inside : Entry(list, q) <= Entry(list, o)).material.refractive_index

\* C3: IntersectionInfos::new computes n1 as the refractive index of the last
\* container before intersection k is processed and n2 as that of the last
\* container after it (1.0 when the list is empty), the containers being toggled
\* by every intersection in order; on a list where objects are entered and left,
\* nested or overlapping, that is the index of the medium left and entered.
C3_RefractiveIndices ==
    xsOp.name = "infos" =>
        LET k == xsOp.index
            before == ContainersAfter(xs, k - 1)
            after == ContainersAfter(xs, k)
        IN  /\ xsOp.n[1] = IF before = <<>> THEN VacuumIndex
                           ELSE before[Len(before)].material.refractive_index
            /\ xsOp.n[2] = IF after = <<>> THEN VacuumIndex
                           ELSE after[Len(after)].material.refractive_index
            /\ Paired(xs) => xsOp.n = <<MediumAfter(xs, k - 1), MediumAfter(xs, k)>>

\* C3 witness: the ray leaves B inside A and C, where B and C overlap: n1 = n2 = 2.5
C3_Witness ==
    /\ xsOp.name = "infos"
    /\ Len(xs) = 6
    /\ Paired(xs)
    /\ xsOp.index = 4
    /\ xs[4].object = xs[2].object
    /\ xsOp.n = <<25, 25>>

-----------------------------------------------------------------------------
(* The scene graph: objects built through the public construction          *)
(* operations, transformed, subdivided and intersected                     *)

MaxLeaves == 3
MaxGroups == 1
MaxNested == 3
MaxCoord == 6

\* the leaves of the model as (shape, builder transform): two cubes left and right
\* of x = 0, a cube around the origin and a triangle in the plane z = 0
LeafMenu ==
    {<<Cube, MatMul(Translation(-4, 0), Scaling(2, 2))>>,
     <<Cube, MatMul(Translation(4, 0), Scaling(2, 2))>>,
     <<Cube, Scaling(4, 4)>>,
     <<Triangle(0, 4, 0), Identity>>}

TransformMenu == {Translation(4, 0)}

WithTransformMenu == {Translation(0, -4)}

GroupRays ==
    {Ray(Vec(x, -16), Vec(0, 1)) : x \in {-4, 1}} \cup {Ray(Vec(-16, 0), Vec(1, 0))}

Thresholds == {1, 3}

RECURSIVE LeafCount(_)
RECURSIVE LeafCountFrom(_, _)
LeafCountFrom(objects, i) ==
    IF i > Len(objects) THEN 0 ELSE LeafCount(objects[i]) + LeafCountFrom(objects, i + 1)
LeafCount(object) ==
    IF IsContainer(object.shape) THEN LeafCountFrom(object.shape.objects, 1) ELSE 1

RECURSIVE GroupCount(_)
RECURSIVE GroupCountFrom(_, _)
GroupCountFrom(objects, i) ==
    IF i > Len(objects) THEN 0 ELSE GroupCount(objects[i]) + GroupCountFrom(objects, i + 1)
GroupCount(object) ==
    IF IsContainer(object.shape) THEN 1 + GroupCountFrom(object.shape.objects, 1) ELSE 0

\* the cached box is empty, unbounded or on the even coordinates of the model, and
\* the translation of every object is within the coordinates of the model
OnGrid(c) == IsFinite(c) => (Abs(c) <= MaxCoord /\ c % 2 = 0)

RECURSIVE InRange(_)
InRange(object) ==
    /\ \A i \in Axes : OnGrid(object.bounds.min[i]) /\ OnGrid(object.bounds.max[i])
    /\ \A i \in Axes : Abs(object.transform.t[i]) <= MaxCoord
    /\ IsContainer(object.shape) =>
         \A k \in 1..Len(object.shape.objects) : InRange(object.shape.objects[k])

GOp(name, target, before) == [NoGOp EXCEPT !.name = name, !.target = target, !.before = before]

\* Object::new on a primitive, then the builder's operations and transform()
GNewLeaf ==
    /\ LeafCountFrom(pool, 1) < MaxLeaves
    /\ \E l \in LeafMenu :
         pool' = Append(pool, ApplyTransform(ObjectNew(l[1]), l[2]))
    /\ gOp' = GOp("new_leaf", Len(pool) + 1, <<>>)
    /\ UNCHANGED <<xsVars, worldVars, restVars>>

\* Object::new on a Plane, no builder; a scene has its plane built first
GNewPlane ==
    /\ pool = <<>>
    /\ pool' = <<ObjectNew(Plane)>>
    /\ gOp' = GOp("new_plane", 1, <<>>)
    /\ UNCHANGED <<xsVars, worldVars, restVars>>

\* Group::with_objects on the objects built so far, then Object::new
GNewGroup ==
    /\ GroupCountFrom(pool, 1) < MaxGroups
    /\ pool' = <<ObjectNew(Group(pool))>>
    /\ gOp' = GOp("new_group", 1, <<>>)
    /\ UNCHANGED <<xsVars, worldVars, restVars>>

\* Mesh::with_triangles on the triangles built so far, then Object::new
GNewMesh ==
    /\ GroupCountFrom(pool, 1) < MaxGroups
    /\ pool # <<>>
    /\ \A i \in 1..Len(pool) : pool[i].shape.kind = "Triangle"
    /\ pool' = <<ObjectNew(Mesh(pool))>>
    /\ gOp' = GOp("new_mesh", 1, <<>>)
    /\ UNCHANGED <<xsVars, worldVars, restVars>>

\* the object under construction is the last of the pool
Last == Len(pool)

\* TransformBuilder::transform on a container: apply_transform
GTransform ==
    /\ \E i \in {Last} \ {0}, m \in TransformMenu :
         LET transformed == ApplyTransform(pool[i], m)
         IN  /\ IsContainer(pool[i].shape)
             /\ InRange(transformed)
             /\ pool' = [pool EXCEPT ![i] = transformed]
             /\ gOp' = GOp("transform", i, <<>>)
    /\ UNCHANGED <<xsVars, worldVars, restVars>>

\* Object::with_transform on a container
GWithTransform ==
    /\ \E i \in {Last} \ {0}, m \in WithTransformMenu :
         LET transformed == WithTransform(pool[i], m)
         IN  /\ IsContainer(pool[i].shape)
             /\ InRange(transformed)
             /\ pool' = [pool EXCEPT ![i] = transformed]
             /\ gOp' = GOp("with_transform", i, <<>>)
    /\ UNCHANGED <<xsVars, worldVars, restVars>>

\* Object::divide
GDivide ==
    /\ \E i \in {Last} \ {0}, threshold \in Thresholds :
         LET divided == ObjectDivide(pool[i], threshold)
         IN  /\ GroupCount(divided) <= MaxNested
             /\ pool' = [pool EXCEPT ![i] = divided]
             /\ gOp' = [GOp("divide", i, pool[i]) EXCEPT !.threshold = threshold]
    /\ UNCHANGED <<xsVars, worldVars, restVars>>

\* Object::intersect
GIntersect ==
    /\ \E i \in {Last} \ {0}, r \in GroupRays :
         LET got == ObjectIntersect(pool[i], r)
         IN  gOp' = [GOp("intersect", i, <<>>) EXCEPT
                        !.ray = r, !.xs = got.xs, !.calls = got.calls]
    /\ UNCHANGED <<pool, xsVars, worldVars, restVars>>

GroupInit == XsIdle /\ GroupIdle /\ WorldIdle /\ RestIdle

GroupNext ==
    \/ GNewLeaf
    \/ GNewPlane
    \/ GNewGroup
    \/ GNewMesh
    \/ GTransform
    \/ GWithTransform
    \/ GDivide
    \/ GIntersect

SpecGroup == GroupInit /\ [][GroupNext]_vars

-----------------------------------------------------------------------------
(* Properties of the scene graph                                           *)

\* the ray a container hands to its children
ContainerRay(object, ray) ==
    Ray([i \in Axes |-> ray.origin[i] - object.transform.t[i]], ray.direction)

\* what the primitives below an object return for a ray, no box consulted
RECURSIVE LeafHits(_, _)
RECURSIVE LeafHitsFrom(_, _, _)
LeafHitsFrom(objects, ray, i) ==
    IF i > Len(objects) THEN <<>>
    ELSE LeafHits(objects[i], ray) \o LeafHitsFrom(objects, ray, i + 1)
LeafHits(object, ray) ==
    IF IsContainer(object.shape)
    THEN LeafHitsFrom(object.shape.objects, ContainerRay(object, ray), 1)
    ELSE ObjectIntersect(object, ray).xs

\* what the children of a container return for a ray, in child order
RECURSIVE ChildrenHits(_, _, _)
ChildrenHits(objects, ray, i) ==
    IF i > Len(objects) THEN <<>>
    ELSE ObjectIntersect(objects[i], ray).xs \o ChildrenHits(objects, ray, i + 1)

\* C7: the cull of a Group/Mesh is conservative: intersect returns exactly the
\* intersections of the primitives below it; and after divide(threshold) the
\* object returns the same multiset of (t, primitive) pairs as before
C7_CullConservative ==
    /\ (gOp.name = "intersect" /\ IsContainer(pool[gOp.target].shape)) =>
         IsPermutation(gOp.xs, LeafHits(pool[gOp.target], gOp.ray))
    /\ gOp.name = "divide" =>
         \A r \in GroupRays :
             IsPermutation(ObjectIntersect(pool[gOp.target], r).xs,
                           ObjectIntersect(gOp.before, r).xs)

\* C8: Group::intersect tests no child when the box of the group object is not
\* intersected by the ray and returns the empty list; otherwise it calls intersect
\* once on every child, in child order, and returns the concatenation of the results
C8_GroupIntersectThroughBox ==
    (gOp.name = "intersect" /\ IsContainer(pool[gOp.target].shape)) =>
        LET g == pool[gOp.target]
            ray == ContainerRay(g, gOp.ray)
            n == Len(g.shape.objects)
            direct == SelectSeq(gOp.calls, LAMBDA path : Len(path) = 1)
        IN  IF BoxIntersects(g.bounds, ray)
            THEN /\ direct = [k \in 1..n |-> <<k>>]
                 /\ gOp.xs = ChildrenHits(g.shape.objects, ray, 1)
            ELSE gOp.calls = <<>> /\ gOp.xs = <<>>

C8_Witness ==
    /\ gOp.name = "intersect"
    /\ pool[gOp.target].shape.kind = "Group"
    /\ Len(pool[gOp.target].shape.objects) = 3
    /\ BoxIntersects(pool[gOp.target].bounds, gOp.ray)
    /\ Len(gOp.calls) = 3
    /\ Len(gOp.xs) = 2

\* C9: divide(threshold) on a group with at least threshold children leaves in the
\* group the children contained in neither half of its box, in their order, then a
\* subgroup of those contained in the left half if there are any, then a subgroup
\* of the others contained in the right half if there are any (each in the original
\* order); divide(threshold) is then applied to every child, the subgroups included
C9_DividePartition ==
    (/\ gOp.name = "divide"
     /\ gOp.before.shape.kind = "Group"
     /\ gOp.threshold <= Len(gOp.before.shape.objects)) =>
        LET children == gOp.before.shape.objects
            halves == BoxSplit(GroupBounds(children))
            InLeft(c) == ContainsBox(halves[1], c.bounds)
            InRight(c) == ~InLeft(c) /\ ContainsBox(halves[2], c.bounds)
            InNeither(c) == ~InLeft(c) /\ ~InRight(c)
            left == SelectSeq(children, InLeft)
            right == SelectSeq(children, InRight)
            expected == SelectSeq(children, InNeither)
                        \o (IF left = <<>> THEN <<>> ELSE <<ObjectNew(Group(left))>>)
                        \o (IF right = <<>> THEN <<>> ELSE <<ObjectNew(Group(right))>>)
        IN  pool[gOp.target].shape.objects =
                [k \in 1..Len(expected) |-> ObjectDivide(expected[k], gOp.threshold)]

C9_Witness ==
    /\ gOp.name = "divide"
    /\ gOp.before.shape.kind = "Group"
    /\ gOp.threshold = 1
    /\ Len(gOp.before.shape.objects) = 3
    /\ LET now == pool[gOp.target].shape.objects
       IN  /\ Len(now) = 3
           /\ now[1] = gOp.before.shape.objects[3]
           /\ now[2].shape.kind = "Group"
           /\ now[3].shape.kind = "Group"

\* C10: every Group/Mesh object obtained through the construction operations has
\* the identity transform, at every level of nesting
RECURSIVE ContainersIdentity(_)
ContainersIdentity(object) ==
    IsContainer(object.shape) =>
        /\ object.transform = Identity
        /\ \A k \in 1..Len(object.shape.objects) :
               ContainersIdentity(object.shape.objects[k])

C10_ContainerIdentity == \A i \in 1..Len(pool) : ContainersIdentity(pool[i])

\* the image of a box under the map x |-> s * x + t of a transform (s > 0): an
\* infinite coordinate stays infinite
ImageBox(box, m) ==
    LET Image(c, i) == IF IsFinite(c) THEN m.s[i] * c + m.t[i] ELSE c
    IN  BoundingBox([i \in Axes |-> Image(box.min[i], i)],
                    [i \in Axes |-> Image(box.max[i], i)])

\* the cached box of the object and of every object below it is the box of its
\* shape mapped through its transform
RECURSIVE BoxFresh(_)
BoxFresh(object) ==
    /\ object.bounds = ImageBox(ShapeBounds(object.shape), object.transform)
    /\ IsContainer(object.shape) =>
         \A k \in 1..Len(object.shape.objects) : BoxFresh(object.shape.objects[k])

\* C11: after any sequence of Object::new, with_transform, the builder's
\* transform(), with_material and divide, the cached box of every object equals
\* the local bounds of its shape mapped through its transform matrix
C11_CachedBoxFresh == \A i \in 1..Len(pool) : BoxFresh(pool[i])

\* a box without points: min above max on an axis
IsEmptyBox(box) == \E i \in Axes : box.min[i] > box.max[i]

\* the union of the boxes of a list of objects: the least box that holds every
\* non-empty one
RECURSIVE UnionFrom(_, _, _)
UnionFrom(objects, i, acc) ==
    IF i > Len(objects) THEN acc
    ELSE LET b == objects[i].bounds
         IN  UnionFrom(objects, i + 1,
                 IF IsEmptyBox(b) THEN acc
                 ELSE IF IsEmptyBox(acc) THEN b
                 ELSE BoundingBox([a \in Axes |-> IF b.min[a] < acc.min[a] THEN b.min[a] ELSE acc.min[a]],
                                  [a \in Axes |-> IF b.max[a] > acc.max[a] THEN b.max[a] ELSE acc.max[a]]))

\* box holds every point of other
Holds(box, other) ==
    \/ IsEmptyBox(other)
    \/ \A a \in Axes : box.min[a] <= other.min[a] /\ other.max[a] <= box.max[a]

RECURSIVE Contained(_)
Contained(object) ==
    IsContainer(object.shape) =>
        LET children == object.shape.objects
        IN  /\ object.bounds = UnionFrom(children, 1, EmptyBox)
            /\ \A k \in 1..Len(children) :
                   Holds(object.bounds, children[k].bounds) /\ Contained(children[k])

\* C12: in a tree built with Group::with_objects, Object::new, the builder's
\* transform() and divide (no with_transform on a container), the cached box of
\* every Group/Mesh object is the union of the cached boxes of its children and
\* contains each of them, at every level of nesting
C12_BvhContainment ==
    \A i \in 1..Len(pool) : ContainersIdentity(pool[i]) => Contained(pool[i])

-----------------------------------------------------------------------------
(* src/color.rs, src/material.rs, src/light.rs, src/world.rs: shading.     *)
(* A colour is one channel, an exact fraction n/d in lowest terms.  Points *)
(* and lights lie on the line x = 0 and rays run along it, so that every   *)
(* normalised vector is a unit vector of an axis and every cosine is 0, 1  *)
(* or -1.  One step of the grid is EPSILON.                                *)

EPSILON == 1

RECURSIVE GCD(_, _)
GCD(a, b) == IF b = 0 THEN a ELSE GCD(b, a % b)

\* Color::new
Color(n, d) == LET g == GCD(n, d) IN [n |-> n \div g, d |-> d \div g]

Black == Color(0, 1)
White == Color(1, 1)

\* Add for Color, Mul for Color and Mul<f64> for Color
ColorAdd(a, b) == Color(a.n * b.d + b.n * a.d, a.d * b.d)
ColorMul(a, b) == Color(a.n * b.n, a.d * b.d)

\* a material coefficient, kept in tenths
Tenths(k) == Color(k, 10)

Dot(a, b) == a[1] * b[1] + a[2] * b[2]
Neg(a) == [i \in Axes |-> -a[i]]
VecAdd(a, b) == [i \in Axes |-> a[i] + b[i]]
VecScale(a, k) == [i \in Axes |-> a[i] * k]

\* DVec3::normalize and DVec3::length of a vector along one axis
Normalize(a) == [i \in Axes |-> Sign(a[i])]
Length(a) == Abs(a[1]) + Abs(a[2])

\* Cube::normal_at on the point of the object, then Object::normal_to_world;
\* the local coordinates (p - t) / s are compared across the denominators
CubeNormalAt(object, point) ==
    LET m == object.transform
        x == (point[1] - m.t[1]) * m.s[2]
        z == (point[2] - m.t[2]) * m.s[1]
    IN  IF Abs(x) >= Abs(z) THEN Vec(Sign(x), 0) ELSE Vec(0, Sign(z))

\* Triangle::normal_at: e2 x e1, normalised
TriangleNormalAt(object) == Vec(0, -Sign(object.shape.x1 - object.shape.x0))

\* Object::normal_at
NormalAt(object, point) ==
    IF object.shape.kind = "Cube" THEN CubeNormalAt(object, point)
    ELSE TriangleNormalAt(object)

\* IntersectionInfos::new
IntersectionInfos(list, intersection_index, ray) ==
    LET intersection == list[intersection_index]
        point == RayAt(ray, intersection.t)
        eyev == Neg(ray.direction)
        normal == NormalAt(intersection.object, point)
        inside == Dot(normal, eyev) < 0
        normalv == IF inside THEN Neg(normal) ELSE normal
    IN  [t |-> intersection.t,
         object |-> intersection.object,
         point |-> point,
         over_point |-> VecAdd(point, VecScale(normalv, EPSILON)),
         under_point |-> VecAdd(point, VecScale(normalv, -EPSILON)),
         eyev |-> eyev,
         normalv |-> normalv,
         reflectv |-> VecAdd(ray.direction,
                             VecScale(normalv, -2 * Dot(ray.direction, normalv))),
         inside |-> inside,
         n |-> RefractiveIndices(list, intersection_index)]

\* IntersectionInfos::schlick; the cosines are 0 or 1
Schlick(infos) ==
    LET cos == Dot(infos.eyev, infos.normalv)
        n1 == infos.n[1]
        n2 == infos.n[2]
        r0 == Color((n1 - n2) * (n1 - n2), (n1 + n2) * (n1 + n2))
    IN  IF n1 > n2 /\ n1 * n1 * (1 - cos * cos) > n2 * n2 THEN White
        ELSE IF cos = 1 THEN r0
        ELSE White

\* PointLight::new.  A light of the model is one record for both variants of
\* Light; a PointLight leaves the fields of the AreaLight at their zero
PointLight(position, intensity) ==
    [kind |-> "PointLight", position |-> position, intensity |-> intensity,
     corner |-> position, uvec |-> Vec(0, 0), usteps |-> 0, vvec |-> Vec(0, 0),
     vsteps |-> 0, samples |-> 0, positions |-> <<position>>, rng |-> <<>>]

\* Sequence::new
SequenceNew(values) == [values |-> values, index |-> 0]

\* next() that never leaves the first value
SequenceNextFirst(self) ==
    [self |-> [self EXCEPT !.index = 1], result |-> Some(self.values[1])]

\* <Sequence as Iterator>::next: the sequence after the call and what it returns;
\* values[index] is the element index + 1 of the model's 1-based sequence
SequenceNext(self) ==
    LET index == IF self.index >= Len(self.values) THEN 0 ELSE self.index
    IN  [self |-> [self EXCEPT !.index = index + 1],
         result |-> Some(self.values[index + 1])]

\* a jitter value rng.gen() of [0, 1) is a number of quarters
JitterDen == 4

\* AreaLight::new; the cell vectors are multiples of JitterDen, so that the cell
\* centres and the jittered samples are on the grid.  rng is what
\* rand::thread_rng() yields to an intensity_at call of this light.  The position
\* Material::lighting takes the light direction from is the centre of the light
AreaLight(corner, full_uvec, usteps, full_vvec, vsteps, color) ==
    LET samples == usteps * vsteps
        uvec == [i \in Axes |-> full_uvec[i] \div usteps]
        vvec == [i \in Axes |-> full_vvec[i] \div vsteps]
    IN  [kind |-> "AreaLight",
         position |-> [i \in Axes |-> corner[i] + (full_uvec[i] + full_vvec[i]) \div 2],
         intensity |-> color,
         corner |-> corner, uvec |-> uvec, usteps |-> usteps, vvec |-> vvec,
         vsteps |-> vsteps, samples |-> samples,
         positions |-> [k \in 1..samples |->
                          LET u == (k - 1) % usteps
                              v == (k - 1) \div usteps
                          IN  [i \in Axes |-> corner[i] + (uvec[i] * (2 * u + 1)) \div 2
                                                       + (vvec[i] * (2 * v + 1)) \div 2]],
         rng |-> [k \in 1..samples |-> 0]]

\* AreaLight::point_on_light: two values are taken from the sequence, for u first
PointOnLight(light, u, v, jitter_by) ==
    LET ju == SequenceNext(jitter_by)
        jv == SequenceNext(ju.self)
    IN  [jitter_by |-> jv.self,
         point |-> [i \in Axes |->
                      light.corner[i]
                      + (light.uvec[i] * (JitterDen * u + ju.result.value)) \div JitterDen
                      + (light.vvec[i] * (JitterDen * v + jv.result.value)) \div JitterDen]]

\* World::is_shadowed
IsShadowed(w, world_point, light_pos) ==
    LET ray_dir == VecAdd(light_pos, Neg(world_point))
        distance == Length(ray_dir)
        shadow_ray == Ray(world_point, Normalize(ray_dir))
        hit == Hit(WorldIntersects(w, shadow_ray), "ShadowHit")
    IN  IF hit.some THEN hit.value.t < distance ELSE FALSE

\* the loops of AreaLight::intensity_at_impl over the cells, v outside and u
\* inside, from cell k on: the points is_shadowed was called on and the total
RECURSIVE IntensityCells(_, _, _, _, _, _)
IntensityCells(light, world_point, w, jitter_by, k, acc) ==
    IF k >= light.vsteps * light.usteps THEN acc
    ELSE LET u == k % light.usteps
             v == k \div light.usteps
             sample == PointOnLight(light, u, v, jitter_by)
             shadowed == IsShadowed(w, world_point, sample.point)
         IN  IntensityCells(light, world_point, w, sample.jitter_by, k + 1,
                 [total |-> acc.total + (IF shadowed THEN 0 ELSE 1),
                  tests |-> Append(acc.tests, sample.point)])

\* total / usteps
IntensityAtImplUsteps(light, world_point, w, jitter_by) ==
    LET cells == IntensityCells(light, world_point, w, jitter_by, 0,
                                [total |-> 0, tests |-> <<>>])
    IN  Color(cells.total, light.usteps)

\* AreaLight::intensity_at_impl: total / samples
IntensityAtImpl(light, world_point, w, jitter_by) ==
    LET cells == IntensityCells(light, world_point, w, jitter_by, 0,
                                [total |-> 0, tests |-> <<>>])
    IN  Color(cells.total, light.samples)

\* <Light as LightSource>::intensity_at: PointLight::intensity_at, and
\* AreaLight::intensity_at with the sequence of its random values
IntensityAt(light, world_point, w) ==
    IF light.kind = "AreaLight"
    THEN IntensityAtImpl(light, world_point, w, SequenceNew(light.rng))
    ELSE IF IsShadowed(w, world_point, light.position) THEN Color(0, 1) ELSE Color(1, 1)

\* the terms of Material::lighting before the light intensity is applied;
\* r_dot_e is 0 or 1 on the vectors of the model, and so is its power
LightingTerms(material, light, point, eyev, normal) ==
    LET effective_color == ColorMul(Color(material.color, 1), light.intensity)
        ambient == ColorMul(effective_color, Tenths(material.ambient))
        lightv == Normalize(VecAdd(light.position, Neg(point)))
        l_dot_n == Dot(lightv, normal)
        reflectv == VecAdd(Neg(lightv), VecScale(normal, 2 * l_dot_n))
        r_dot_e == Dot(reflectv, eyev)
    IN  [ambient |-> ambient,
         diffuse |-> IF l_dot_n >= 0
                     THEN ColorMul(ColorMul(effective_color, Tenths(material.diffuse)),
                                   Color(l_dot_n, 1))
                     ELSE Black,
         specular |-> IF l_dot_n >= 0 /\ r_dot_e > 0
                      THEN ColorMul(light.intensity, Tenths(material.specular))
                      ELSE Black]

\* lighting that attenuates the ambient term too
LightingAttenuated(material, light, point, eyev, normal, intensity) ==
    LET terms == LightingTerms(material, light, point, eyev, normal)
    IN  ColorMul(ColorAdd(terms.ambient, ColorAdd(terms.diffuse, terms.specular)),
                 intensity)

\* Material::lighting: ambient + diffuse * intensity + specular * intensity
Lighting(material, light, point, eyev, normal, intensity) ==
    LET terms == LightingTerms(material, light, point, eyev, normal)
    IN  ColorAdd(ColorAdd(terms.ambient, ColorMul(terms.diffuse, intensity)),
                 ColorMul(terms.specular, intensity))

\* the loop over the lights in World::shade_hit
RECURSIVE LightingFrom(_, _, _, _)
LightingFrom(w, infos, i, color) ==
    IF i > Len(w.lights) THEN color
    ELSE LightingFrom(w, infos, i + 1,
             ColorAdd(color,
                 Lighting(infos.object.material, w.lights[i], infos.over_point,
                          infos.eyev, infos.normalv,
                          IntensityAt(w.lights[i], infos.over_point, w))))

\* Option::unwrap_or with Black in every case
UnwrapOrBlack(option, default) == IF option.some THEN option.value ELSE Black

\* Option::unwrap_or
UnwrapOr(option, default) == IF option.some THEN option.value ELSE default

\* Option::unwrap_or_default on a colour
UnwrapOrDefault(option) == UnwrapOr(option, Black)

\* the plain sum of the three terms, whatever the material
ShadeCombinePlain(infos, color, reflected, refracted) ==
    ColorAdd(color, ColorAdd(reflected, refracted))

\* the last lines of World::shade_hit
ShadeCombine(infos, color, reflected, refracted) ==
    LET material == infos.object.material
    IN  IF material.reflective > 0 /\ material.transparency > 0
        THEN LET reflectance == Schlick(infos)
                 rest == Color(reflectance.d - reflectance.n, reflectance.d)
             IN  ColorAdd(color, ColorAdd(ColorMul(reflected, reflectance),
                                          ColorMul(refracted, rest)))
        ELSE ColorAdd(color, ColorAdd(reflected, refracted))

\* the guard of World::reflected_color that stops on remaining alone
ReflectedStopsOnRemaining(material, remaining) == remaining < 1

\* the guard of World::reflected_color that never stops on remaining
ReflectedStopsNever(material, remaining) == material.reflective = 0

\* the guard of World::reflected_color
ReflectedStops(material, remaining) == remaining < 1 \/ material.reflective = 0

\* the guard of World::refracted_color that never stops on remaining
RefractedStopsNever(material, remaining) == material.transparency = 0

\* the guards of World::refracted_color
RefractedStops(material, remaining) == remaining < 1 \/ material.transparency = 0

\* total internal reflection in World::refracted_color: sin2_t > 1
TotalInternalReflection(infos) ==
    LET cos_i == Dot(infos.eyev, infos.normalv)
    IN  infos.n[1] * infos.n[1] * (1 - cos_i * cos_i) > infos.n[2] * infos.n[2]

\* the refracted ray of World::refracted_color; with cos_i = 1 and cos_t = 1 the
\* direction normalv * (ratio - 1) - eyev * ratio is -eyev
RefractedRay(infos) == Ray(infos.under_point, Neg(infos.eyev))

\* the reflected ray of World::reflected_color
ReflectedRay(infos) == Ray(infos.over_point, infos.reflectv)

\* u8 subtraction
U8Sub(a, b) == (a - b) % 256

-----------------------------------------------------------------------------
(* The world: color_at with its calls of itself as a stack of frames,      *)
(* is_shadowed, and Camera::render pixel by pixel                          *)

MaxRemaining == 2

Slab(tz, sz) == WithTransform(ObjectNew(Cube), MatMul(Translation(0, tz), Scaling(4, sz)))
Mirror(tz, sz) == WithMaterial(Slab(tz, sz), Material(1, 1, 0, 10))
GlassMirror(tz, sz) == WithMaterial(Slab(tz, sz), Material(1, 1, 1, 30))
Ghost(tz, sz) == WithShadow(Slab(tz, sz), FALSE)
FlatGroup == ObjectNew(Group(<<ObjectNew(Triangle(-2, 6, 0))>>))
\* containers with a material and a shadow flag of their own: a group of one cube
\* and a mesh of two triangles
PaintedGroup ==
    WithShadow(WithMaterial(ObjectNew(Group(<<Slab(-6, 2)>>)), Material(1, 1, 0, 10)), FALSE)
PaintedMesh ==
    WithMaterial(ObjectNew(Mesh(<<ObjectNew(Triangle(-2, 6, 4)), ObjectNew(Triangle(-2, 6, 6))>>)),
                 Material(1, 1, 0, 10))

LightA == PointLight(Vec(0, -10), White)
LightB == PointLight(Vec(0, 14), Color(1, 2))

\* the worlds of the model, as built by World::new, with_objects and with_lights
Scenes ==
    {World(<<Slab(0, 4)>>, <<LightA>>),
     World(<<Mirror(-12, 2), Mirror(12, 2)>>, <<PointLight(Vec(0, 2), White)>>),
     World(<<GlassMirror(0, 8), Glass(2, 0, 20), Slab(16, 2)>>, <<LightA, LightB>>),
     World(<<Ghost(-6, 2), Slab(4, 2)>>, <<LightA>>),
     World(<<Slab(-6, 2), Ghost(-2, 1), Mirror(4, 2)>>, <<LightA, LightB>>),
     World(<<FlatGroup, Slab(8, 2)>>, <<LightA>>),
     World(<<PaintedGroup, PaintedMesh>>, <<LightA>>)}

WorldRays == {Ray(Vec(0, z), Vec(0, d)) : z \in {-16, 0}, d \in {-1, 1}}
Points == {Vec(0, z) : z \in {-13, -3, 1, 5, 9}}
LightPositions == {Vec(0, -10), Vec(0, 14)}

Cameras == {Camera(3, 1, [n |-> 0, d |-> 1]), Camera(3, 1, Color(1, 2))}

\* Camera::ray_for_pixel, as the table of the rays through the pixels
RayForPixel(x, y) ==
    LET i == y * 3 + x
    IN  IF i = 0 THEN Ray(Vec(0, -16), Vec(0, 1))
        ELSE IF i = 1 THEN Ray(Vec(0, -16), Vec(0, -1))
        ELSE Ray(Vec(0, 0), Vec(0, 1))

\* a call of color_at that has not run yet
Frame(ray, remaining) ==
    [ray |-> ray, remaining |-> remaining, pc |-> "color_at", xs |-> <<>>, index |-> 0,
     infos |-> <<>>, color |-> Black, reflected |-> Black, refracted |-> Black]

Top == stack[Len(stack)]
Callers == SubSeq(stack, 1, Len(stack) - 1)
SetTop(frame) == [stack EXCEPT ![Len(stack)] = frame]
Idle == stack = <<>> /\ pixel = 0

\* the caller takes the value of the call it waits for: reflected_color and
\* refracted_color after their call of color_at
Resume(frames, value) ==
    LET caller == frames[Len(frames)]
        material == caller.infos.object.material
    IN  [frames EXCEPT ![Len(frames)] =
            IF caller.pc = "reflected_color"
            THEN [caller EXCEPT
                     !.reflected = ColorMul(UnwrapOrDefault(value),
                                            Color(material.reflective, 1)),
                     !.pc = "refract"]
            ELSE [caller EXCEPT
                     !.refracted = ColorMul(UnwrapOrDefault(value),
                                            Color(material.transparency, 1)),
                     !.pc = "combine"]]

\* color_at returns: to the color_at that called it, to Camera::render, which
\* stores the pixel, or to the caller of the world
Return(value) ==
    /\ stack' = IF Callers = <<>> THEN <<>> ELSE Resume(Callers, value)
    /\ ret' = IF Callers = <<>> /\ pixel = 0 THEN value ELSE ret
    /\ canvas' = IF Callers = <<>> /\ pixel # 0
                 THEN [canvas EXCEPT ![pixel] = UnwrapOr(value, camera.background)]
                 ELSE canvas
    /\ pixel' = IF Callers = <<>> THEN 0 ELSE pixel
    /\ trace' = [trace EXCEPT
                    !.last = [frame |-> Top, value |-> value, pixel |-> pixel],
                    !.written = IF Callers = <<>> /\ pixel # 0
                                THEN @ \cup {pixel} ELSE @]
    /\ UNCHANGED <<world, camera>>

\* World::new().with_objects(..).with_lights(..)
WNew ==
    /\ Idle
    /\ world = World(<<>>, <<>>)
    /\ world' \in Scenes
    /\ ret' = None
    /\ canvas' = <<>>
    /\ trace' = NoTrace
    /\ UNCHANGED <<camera, stack, pixel, xsVars, groupVars, restVars>>

\* World::is_shadowed
WIsShadowed ==
    /\ Idle
    /\ \E p \in Points, l \in LightPositions :
         trace' = [NoTrace EXCEPT !.op = "is_shadowed", !.point = p, !.light = l,
                                  !.shadowed = IsShadowed(world, p, l)]
    /\ ret' = None
    /\ canvas' = <<>>
    /\ UNCHANGED <<world, camera, stack, pixel, xsVars, groupVars, restVars>>

\* a call of World::color_at from outside
WColorAt ==
    /\ Idle
    /\ \E r \in WorldRays, remaining \in 0..MaxRemaining :
         /\ stack' = <<Frame(r, remaining)>>
         /\ trace' = [NoTrace EXCEPT !.op = "color_at", !.ray = r,
                                     !.remaining = remaining]
    /\ ret' = None
    /\ canvas' = <<>>
    /\ UNCHANGED <<world, camera, pixel, xsVars, groupVars, restVars>>

\* Camera::render: the canvas is made
WRender ==
    /\ Idle
    /\ \E c \in Cameras, max_recursions \in 0..MaxRemaining :
         /\ camera' = c
         /\ canvas' = [i \in 1..(c.width * c.height) |-> Black]
         /\ trace' = [NoTrace EXCEPT !.op = "render", !.remaining = max_recursions]
    /\ ret' = None
    /\ UNCHANGED <<world, stack, pixel, xsVars, groupVars, restVars>>

\* Camera::render: the closure of one pixel calls color_at
WPixel ==
    /\ Idle
    /\ trace.op = "render"
    /\ \E i \in 0..(Len(canvas) - 1) :
         LET y == i \div camera.width
             x == i - y * camera.width
         IN  /\ (i + 1) \notin trace.written
             /\ pixel' = i + 1
             /\ stack' = <<Frame(RayForPixel(x, y), trace.remaining)>>
    /\ UNCHANGED <<world, camera, ret, canvas, trace, xsVars, groupVars, restVars>>

\* World::color_at: no hit
WMiss ==
    /\ stack # <<>>
    /\ Top.pc = "color_at"
    /\ ~HitIndex(WorldIntersects(world, Top.ray), "StandardHit").some
    /\ Return(None)
    /\ UNCHANGED <<xsVars, groupVars, restVars>>

\* color_at that shades from the intersections ahead of the ray origin only
WShadeAhead ==
    /\ stack # <<>>
    /\ Top.pc = "color_at"
    /\ LET intersections == SelectSeq(WorldIntersects(world, Top.ray), StandardHit)
           index == HitIndex(intersections, "StandardHit")
       IN  /\ index.some
           /\ LET infos == IntersectionInfos(intersections, index.value, Top.ray)
              IN  stack' = SetTop([Top EXCEPT
                                      !.pc = "reflect",
                                      !.xs = intersections,
                                      !.index = index.value,
                                      !.infos = infos,
                                      !.color = LightingFrom(world, infos, 1, Black)])
    /\ UNCHANGED <<world, camera, ret, canvas, pixel, trace, xsVars, groupVars, restVars>>

\* World::color_at with a hit, and World::shade_hit up to the end of its loop;
\* xs and index are what color_at hands to IntersectionInfos::new
WShade ==
    /\ stack # <<>>
    /\ Top.pc = "color_at"
    /\ LET intersections == WorldIntersects(world, Top.ray)
           index == HitIndex(intersections, "StandardHit")
       IN  /\ index.some
           /\ LET infos == IntersectionInfos(intersections, index.value, Top.ray)
              IN  stack' = SetTop([Top EXCEPT
                                      !.pc = "reflect",
                                      !.xs = intersections,
                                      !.index = index.value,
                                      !.infos = infos,
                                      !.color = LightingFrom(world, infos, 1, Black)])
    /\ UNCHANGED <<world, camera, ret, canvas, pixel, trace, xsVars, groupVars, restVars>>

\* World::reflected_color up to its call of color_at
WReflected ==
    /\ stack # <<>>
    /\ Top.pc = "reflect"
    /\ IF ReflectedStops(Top.infos.object.material, Top.remaining)
       THEN /\ stack' = SetTop([Top EXCEPT !.reflected = Black, !.pc = "refract"])
            /\ UNCHANGED trace
       ELSE /\ stack' = Append(SetTop([Top EXCEPT !.pc = "reflected_color"]),
                               Frame(ReflectedRay(Top.infos), U8Sub(Top.remaining, 1)))
            /\ trace' = [trace EXCEPT !.casts = @ + 1]
    /\ UNCHANGED <<world, camera, ret, canvas, pixel, xsVars, groupVars, restVars>>

\* World::refracted_color up to its call of color_at
WRefracted ==
    /\ stack # <<>>
    /\ Top.pc = "refract"
    /\ IF RefractedStops(Top.infos.object.material, Top.remaining)
          \/ TotalInternalReflection(Top.infos)
       THEN /\ stack' = SetTop([Top EXCEPT !.refracted = Black, !.pc = "combine"])
            /\ UNCHANGED trace
       ELSE /\ stack' = Append(SetTop([Top EXCEPT !.pc = "refracted_color"]),
                               Frame(RefractedRay(Top.infos), U8Sub(Top.remaining, 1)))
            /\ trace' = [trace EXCEPT !.casts = @ + 1]
    /\ UNCHANGED <<world, camera, ret, canvas, pixel, xsVars, groupVars, restVars>>

\* the end of World::shade_hit, and color_at returns Some
WCombine ==
    /\ stack # <<>>
    /\ Top.pc = "combine"
    /\ Return(Some(ShadeCombine(Top.infos, Top.color, Top.reflected, Top.refracted)))
    /\ UNCHANGED <<xsVars, groupVars, restVars>>

WorldInit == XsIdle /\ GroupIdle /\ WorldIdle /\ RestIdle

WorldNext ==
    \/ WNew
    \/ WIsShadowed
    \/ WColorAt
    \/ WRender
    \/ WPixel
    \/ WMiss
    \/ WShade
    \/ WReflected
    \/ WRefracted
    \/ WCombine

SpecWorld == WorldInit /\ [][WorldNext]_vars

-----------------------------------------------------------------------------
(* Properties of the world                                                 *)

\* what the primitives of the world return for a ray, no box consulted
RECURSIVE WorldLeafHits(_, _, _)
WorldLeafHits(objects, ray, i) ==
    IF i > Len(objects) THEN <<>>
    ELSE LeafHits(objects[i], ray) \o WorldLeafHits(objects, ray, i + 1)

\* C2: is_shadowed(P, L) is true exactly when an object with shadow flag true is
\* intersected by the ray from P toward L at a t with 0 <= t < |L - P|
C2_IsShadowed ==
    trace.op = "is_shadowed" =>
        LET direction == VecAdd(trace.light, Neg(trace.point))
            hits == WorldLeafHits(world.objects,
                                  Ray(trace.point, Normalize(direction)), 1)
        IN  trace.shadowed =
                (\E k \in 1..Len(hits) :
                    /\ hits[k].object.shadow
                    /\ 0 <= hits[k].t
                    /\ hits[k].t < Length(direction))

\* the intersection list of the world has an intersection with t >= 0
HasHit(w, ray) ==
    LET list == WorldIntersects(w, ray)
    IN  \E k \in 1..Len(list) : list[k].t >= 0

\* C4: color_at(ray, remaining) is None exactly when the intersection list of the
\* world for the ray has no intersection with t >= 0, whatever remaining is;
\* render stores the background of the camera in that pixel then, and the
\* returned colour otherwise
C4_NoneIffNoHit ==
    /\ (trace.op = "color_at" /\ stack = <<>>) =>
           ret.some = HasHit(world, trace.ray)
    /\ (trace.op = "render" /\ Idle /\ trace.written # {}) =>
           LET i == trace.last.pixel - 1
               y == i \div camera.width
               x == i - y * camera.width
               value == trace.last.value
           IN  /\ value.some = HasHit(world, RayForPixel(x, y))
               /\ canvas[i + 1] = IF value.some THEN value.value
                                  ELSE camera.background

C4_Witness ==
    /\ trace.op = "render"
    /\ Idle
    /\ trace.written = {1, 2, 3}
    /\ camera.background = Color(1, 2)
    /\ canvas[2] = Color(1, 2)
    /\ canvas[1] = Color(19, 10)
    /\ trace.remaining = 0

\* C5: with remaining = 0 reflected_color and refracted_color are black and no
\* call of color_at is made from the frame, for every material; shade_hit still
\* computes the lighting summed over the lights and returns it
C5_NoSecondaryAtZero ==
    /\ \A k \in 1..Len(stack) :
           stack[k].remaining = 0 =>
               /\ k = Len(stack)
               /\ stack[k].pc \in {"color_at", "reflect", "refract", "combine"}
               /\ stack[k].pc \in {"refract", "combine"} => stack[k].reflected = Black
               /\ stack[k].pc = "combine" => stack[k].refracted = Black
               /\ stack[k].pc # "color_at" =>
                      stack[k].color = LightingFrom(world, stack[k].infos, 1, Black)
    /\ (trace.last.value.some /\ trace.last.frame.remaining = 0) =>
           trace.last.value.value =
               LightingFrom(world, trace.last.frame.infos, 1, Black)

C5_Witness ==
    /\ stack # <<>>
    /\ Top.remaining = 0
    /\ Top.pc = "combine"
    /\ Top.infos.object.material.reflective = 1
    /\ Top.infos.object.material.transparency = 1
    /\ Len(world.lights) = 2
    /\ Top.color = Color(39, 20)
    /\ trace.casts = 0

\* every color_at called by a color_at has remaining smaller by one than its
\* caller, whose remaining is at least 1, and the calls nest at most d + 1 deep
NestingBounded ==
    /\ \A k \in 2..Len(stack) :
           /\ stack[k - 1].remaining >= 1
           /\ stack[k].remaining = stack[k - 1].remaining - 1
    /\ stack # <<>> => Len(stack) <= stack[1].remaining + 1

\* the steps a call of color_at with this remaining can take at most, those of
\* the calls it makes included
RECURSIVE Budget(_)
Budget(remaining) ==
    IF remaining <= 0 THEN 6
    ELSE IF remaining > 16 THEN Budget(16)
    ELSE 6 + 2 * Budget(remaining - 1)

\* the steps a frame can still take, those of the calls it has yet to make included
StepsLeft(frame) ==
    LET calls == IF frame.remaining = 0 THEN 0 ELSE Budget(frame.remaining - 1)
    IN  IF frame.pc = "color_at" THEN 6 + 2 * calls
        ELSE IF frame.pc = "reflect" THEN 5 + 2 * calls
        ELSE IF frame.pc = "reflected_color" THEN 4 + calls
        ELSE IF frame.pc = "refract" THEN 3 + calls
        ELSE IF frame.pc = "refracted_color" THEN 2
        ELSE 1

RECURSIVE Rank(_)
Rank(frames) ==
    IF frames = <<>> THEN 0 ELSE StepsLeft(Head(frames)) + Rank(Tail(frames))

\* C6: color_at(ray, d) terminates: each call of color_at by itself is made with
\* remaining smaller by one and only when remaining >= 1, so that the u8 does not
\* underflow, the nesting of the calls is at most d + 1, and every step of a
\* running color_at lowers a bound on the steps that are left
C6_Terminates ==
    /\ []NestingBounded
    /\ [][stack # <<>> => Rank(stack') < Rank(stack)]_vars

C6_Witness ==
    /\ Len(stack) = 3
    /\ stack[1].remaining = 2
    /\ stack[3].remaining = 0
    /\ stack[1].pc = "reflected_color"
    /\ stack[2].pc = "reflected_color"
    /\ stack[3].pc = "combine"

-----------------------------------------------------------------------------
(* src/camera.rs: Camera::render.  canvas.pixels_mut().par_iter_mut()      *)
(* .enumerate().for_each(..) runs the closure once for every pair of a     *)
(* linear index i and the slot of that index, on the threads of the pool,  *)
(* in any interleaving.  A closure run is a task: it computes x and y,     *)
(* then the colour of the pixel's ray, then stores it through its slot.    *)
(* color_at reads the World through a shared reference and writes nothing  *)
(* shared, so it is one step of its task.                                  *)

\* World::color_at with shade_hit, reflected_color and refracted_color, as the
\* function of its arguments
RECURSIVE ColorAt(_, _, _)
ColorAt(w, ray, remaining) ==
    LET intersections == WorldIntersects(w, ray)
        index == HitIndex(intersections, "StandardHit")
    IN  IF ~index.some THEN None
        ELSE LET infos == IntersectionInfos(intersections, index.value, ray)
                 material == infos.object.material
                 color == LightingFrom(w, infos, 1, Black)
                 reflected ==
                     IF ReflectedStops(material, remaining) THEN Black
                     ELSE ColorMul(UnwrapOrDefault(ColorAt(w, ReflectedRay(infos),
                                                           U8Sub(remaining, 1))),
                                   Color(material.reflective, 1))
                 refracted ==
                     IF RefractedStops(material, remaining)
                        \/ TotalInternalReflection(infos) THEN Black
                     ELSE ColorMul(UnwrapOrDefault(ColorAt(w, RefractedRay(infos),
                                                           U8Sub(remaining, 1))),
                                   Color(material.transparency, 1))
             IN  Some(ShadeCombine(infos, color, reflected, refracted))

\* the values rng.gen() can yield, in quarters
JitterValues == {0, 3}

\* what rand::thread_rng() yields to the intensity_at calls of one color_at
Draws == [1..2 -> JitterValues]

\* the world as one color_at sees it: every AreaLight with its random values
Seeded(w, draws) ==
    [w EXCEPT !.lights =
        [k \in 1..Len(w.lights) |->
            IF w.lights[k].kind = "AreaLight"
            THEN [w.lights[k] EXCEPT !.rng = [j \in 1..w.lights[k].samples |->
                                                 draws[((j - 1) % 2) + 1]]]
            ELSE w.lights[k]]]

\* a light along the z axis, in two cells, behind a slab that hides a part of it
\* from the slab the camera at the origin looks at
LineLight == AreaLight(Vec(0, -12), Vec(0, 8), 2, Vec(0, 0), 1, White)
AreaScene == World(<<Slab(-14, 1), Slab(-7, 1), Slab(5, 1)>>, <<LineLight>>)

RenderScenes ==
    {World(<<Slab(0, 4)>>, <<LightA>>),
     World(<<Mirror(-12, 2), Mirror(12, 2)>>, <<PointLight(Vec(0, 2), White)>>),
     World(<<GlassMirror(0, 8), Glass(2, 0, 20), Slab(16, 2)>>, <<LightA, LightB>>),
     AreaScene}
RenderCameras == {Camera(3, 1, Black), Camera(2, 2, Color(1, 2))}

\* the pixel of the linear index i: y = i / width, x = i - y * width, swapped
PixelXYSwapped(i, width) ==
    LET y == i \div width IN [x |-> y, y |-> i - y * width]

\* the pixel of the linear index i: y = i / width, x = i - y * width
PixelXY(i, width) ==
    LET y == i \div width IN [x |-> i - y * width, y |-> y]

\* the closure run for the linear index i, not started: enumerate() pairs i with
\* the slot i of the pixels (slot i + 1 of the model's 1-based canvas)
Task(i, max_recursions) ==
    [pc |-> "new", i |-> i, slot |-> i + 1, max_recursions |-> max_recursions,
     x |-> 0, y |-> 0, ray |-> <<>>, value |-> Black]

Rendering == tasks # <<>>
AllDone == \A k \in 1..Len(tasks) : tasks[k].pc = "done"

\* World::new().with_objects(..).with_lights(..), before any render
RWorld ==
    /\ ~Rendering
    /\ world = World(<<>>, <<>>)
    /\ world' \in RenderScenes
    /\ UNCHANGED <<camera, stack, ret, canvas, pixel, trace, renderVars, xsVars, groupVars, lightVars, miscVars>>

\* Camera::render: Canvas::new, and the parallel loop is handed the slots
RRender ==
    /\ ~Rendering
    /\ world # World(<<>>, <<>>)
    /\ \E c \in RenderCameras, max_recursions \in {0, MaxRemaining} :
         /\ camera' = c
         /\ canvas' = [k \in 1..(c.width * c.height) |-> Black]
         /\ tasks' = [k \in 1..(c.width * c.height) |-> Task(k - 1, max_recursions)]
         /\ writes' = [k \in 1..(c.width * c.height) |-> <<>>]
    /\ UNCHANGED <<world, stack, ret, pixel, trace, returned, xsVars, groupVars, lightVars, miscVars>>

\* the closure: x, y and the ray of the pixel
RRay ==
    /\ \E k \in 1..Len(tasks) :
         /\ tasks[k].pc = "new"
         /\ LET p == PixelXY(tasks[k].i, camera.width)
            IN  tasks' = [tasks EXCEPT ![k] = [@ EXCEPT !.pc = "ray", !.x = p.x, !.y = p.y,
                                                        !.ray = RayForPixel(p.x, p.y)]]
    /\ UNCHANGED <<world, camera, stack, ret, canvas, pixel, trace, writes, returned,
                   xsVars, groupVars, lightVars, miscVars>>

\* the closure: world.color_at(&ray, max_recursions).unwrap_or(self.background)
RColorAt ==
    /\ \E k \in 1..Len(tasks), draws \in Draws :
         /\ tasks[k].pc = "ray"
         /\ tasks' = [tasks EXCEPT ![k] =
                [@ EXCEPT !.pc = "color",
                          !.value = UnwrapOr(ColorAt(Seeded(world, draws), tasks[k].ray,
                                                     tasks[k].max_recursions),
                                             camera.background)]]
    /\ UNCHANGED <<world, camera, stack, ret, canvas, pixel, trace, writes, returned,
                   xsVars, groupVars, lightVars, miscVars>>

\* the closure: *color = ..
RStore ==
    /\ \E k \in 1..Len(tasks) :
         /\ tasks[k].pc = "color"
         /\ tasks' = [tasks EXCEPT ![k].pc = "done"]
         /\ canvas' = [canvas EXCEPT ![tasks[k].slot] = tasks[k].value]
         /\ writes' = [writes EXCEPT ![tasks[k].slot] = Append(@, k)]
    /\ UNCHANGED <<world, camera, stack, ret, pixel, trace, returned, xsVars, groupVars, lightVars, miscVars>>

\* for_each has joined every task: render returns the canvas
RReturn ==
    /\ Rendering
    /\ AllDone
    /\ returned' = Some([camera |-> camera,
                         max_recursions |-> tasks[1].max_recursions,
                         canvas |-> canvas])
    /\ tasks' = <<>>
    /\ writes' = <<>>
    /\ UNCHANGED <<world, camera, stack, ret, canvas, pixel, trace, xsVars, groupVars, lightVars, miscVars>>

RenderInit == XsIdle /\ GroupIdle /\ WorldIdle /\ RestIdle

RenderNext ==
    \/ RWorld
    \/ RRender
    \/ RRay
    \/ RColorAt
    \/ RStore
    \/ RReturn

SpecRender == RenderInit /\ [][RenderNext]_vars

-----------------------------------------------------------------------------
(* Properties of Camera::render *)

\* the colours color_at can return for the ray of a task, over the random values
Colours(task) ==
    {UnwrapOr(ColorAt(Seeded(world, draws), task.ray, task.max_recursions),
              camera.background) : draws \in Draws}

\* what the tasks have done so far is what the closure of each index does
TasksInOrder ==
    Rendering =>
        /\ Len(canvas) = camera.width * camera.height
        /\ Len(tasks) = Len(canvas)
        /\ \A k \in 1..Len(tasks) :
              LET task == tasks[k]
                  i == k - 1
              IN  /\ writes[k] = IF task.pc = "done" THEN <<k>> ELSE <<>>
                  /\ task.pc # "new" =>
                        /\ task.x = i % camera.width
                        /\ task.y = i \div camera.width
                        /\ task.ray = RayForPixel(task.x, task.y)
                  /\ task.pc \in {"color", "done"} => task.value \in Colours(task)
                  /\ canvas[k] = IF task.pc = "done" THEN task.value ELSE Black

\* C13: during Camera::render over a width x height canvas, in every interleaving
\* of the pixel tasks, every slot is written exactly once by the end, the task
\* of the linear index i writes only slot i, with the colour of the ray through
\* the pixel (i mod width, i div width), no two tasks write the same slot, and
\* the World is not changed
C13_RenderTasks ==
    /\ []TasksInOrder
    /\ [][Rendering => world' = world]_vars

C13_Witness ==
    /\ Len(tasks) = 4
    /\ tasks[1].pc = "ray"
    /\ tasks[2].pc = "color"
    /\ tasks[3].pc = "new"
    /\ tasks[4].pc = "done"
    /\ canvas[4] # Black
    /\ world.objects # <<>>

\* C14: two runs of Camera::render with the same camera, the same world and the
\* same max_recursions return identical canvases, whatever the schedule of the
\* pixel tasks: the canvas of a finished run equals the canvas the last run with
\* the same inputs returned
C14_RenderDeterministic ==
    (/\ Rendering
     /\ AllDone
     /\ returned.some
     /\ returned.value.camera = camera
     /\ returned.value.max_recursions = tasks[1].max_recursions) =>
        canvas = returned.value.canvas

-----------------------------------------------------------------------------
(* src/sequence.rs: a Sequence is built once and next() is called on it.   *)
(* values[self.index] on an empty Vec panics.                              *)

MaxCalls == 7
SeqValues == 0..3
SeqMenu == UNION {[1..n -> SeqValues] : n \in 0..MaxLen}

\* Sequence::new
SeqNew ==
    /\ ~seq.built
    /\ \E values \in SeqMenu :
         seq' = [built |-> TRUE, self |-> SequenceNew(values), calls |-> 0,
                 result |-> None, panicked |-> FALSE]
    /\ UNCHANGED <<lit, xsVars, groupVars, worldVars, renderVars, miscVars>>

\* <Sequence as Iterator>::next
SeqNext ==
    /\ seq.built
    /\ ~seq.panicked
    /\ seq.calls < MaxCalls
    /\ IF Len(seq.self.values) = 0
       THEN seq' = [seq EXCEPT !.panicked = TRUE]
       ELSE LET next == SequenceNext(seq.self)
            IN  seq' = [seq EXCEPT !.self = next.self, !.calls = @ + 1,
                                   !.result = next.result]
    /\ UNCHANGED <<lit, xsVars, groupVars, worldVars, renderVars, miscVars>>

SequenceInit == XsIdle /\ GroupIdle /\ WorldIdle /\ RestIdle

SequenceNextStep ==
    \/ SeqNew
    \/ SeqNext

SpecSequence == SequenceInit /\ [][SequenceNextStep]_vars

\* C16: on a Sequence built from a non-empty list, the n-th call of next()
\* (n = 0, 1, 2, ...) returns Some(values[n mod len]), never None, nothing
\* panics, and after every call 1 <= index <= len
C16_SequenceCyclic ==
    (seq.built /\ Len(seq.self.values) > 0) =>
        /\ ~seq.panicked
        /\ seq.calls > 0 =>
              LET n == seq.calls - 1
                  len == Len(seq.self.values)
              IN  /\ seq.result.some
                  /\ seq.result.value = seq.self.values[(n % len) + 1]
                  /\ 1 <= seq.self.index
                  /\ seq.self.index <= len

C16_Witness ==
    /\ seq.self.values = <<0, 3, 1>>
    /\ seq.calls = 5
    /\ seq.result = Some(3)
    /\ seq.self.index = 2

-----------------------------------------------------------------------------
(* src/lights: intensity_at of a light, called with a point and a World.   *)
(* The lights lie on the z axis and so do the points, so every shadow ray  *)
(* runs along it.  An AreaLight whose vvec is along its uvec, or is zero,  *)
(* has its cells on one line.                                              *)

LightMenu ==
    {AreaLight(Vec(0, -12), Vec(0, 8), 2, Vec(0, 0), 1, White),
     AreaLight(Vec(0, -20), Vec(0, 8), 2, Vec(0, 16), 2, Color(1, 2)),
     AreaLight(Vec(0, -12), Vec(0, 4), 1, Vec(0, 0), 2, White),
     PointLight(Vec(0, -10), White),
     PointLight(Vec(0, -4), Color(1, 2))}
LightWorlds ==
    {World(<<>>, <<>>),
     World(<<Slab(-7, 1)>>, <<>>),
     World(<<Slab(-7, 1), Slab(5, 1)>>, <<>>),
     World(<<Slab(-15, 5), Slab(5, 1)>>, <<>>)}
LightPoints == {Vec(0, z) : z \in {-2, 3, 8}}

\* the points intensity_at hands to World::is_shadowed, in the order of the calls
ShadowTests(light, world_point, w) ==
    IF light.kind = "AreaLight"
    THEN IntensityCells(light, world_point, w, SequenceNew(light.rng), 0,
                        [total |-> 0, tests |-> <<>>]).tests
    ELSE <<light.positions[1]>>

\* <Light as LightSource>::intensity_at; an AreaLight draws its random values
LIntensityAt ==
    /\ \E light \in LightMenu, w \in LightWorlds, world_point \in LightPoints :
         \E rng \in [1..light.samples -> JitterValues] :
            LET drawn == [light EXCEPT !.rng = rng]
            IN  lit' = [op |-> "intensity_at", light |-> drawn, world |-> w,
                        world_point |-> world_point,
                        intensity |-> IntensityAt(drawn, world_point, w),
                        tests |-> ShadowTests(drawn, world_point, w)]
    /\ UNCHANGED <<seq, xsVars, groupVars, worldVars, renderVars, miscVars>>

LightInit == XsIdle /\ GroupIdle /\ WorldIdle /\ RestIdle

LightNext == LIntensityAt

SpecLight == LightInit /\ [][LightNext]_vars

\* the cells of the last intensity_at call whose sample is not shadowed
Unshadowed ==
    {k \in 1..Len(lit.tests) : ~IsShadowed(lit.world, lit.world_point, lit.tests[k])}

\* the sample k is a point of the cell k of the light: u runs inside v
InCell(light, k, point) ==
    LET u == (k - 1) % light.usteps
        v == (k - 1) \div light.usteps
    IN  \E ju, jv \in 0..(JitterDen - 1) :
           point = [i \in Axes |->
                      light.corner[i]
                      + (light.uvec[i] * (JitterDen * u + ju)) \div JitterDen
                      + (light.vvec[i] * (JitterDen * v + jv)) \div JitterDen]

\* C15: intensity_at of an AreaLight makes exactly usteps * vsteps shadow tests,
\* one on a sample of each cell, and returns the number of unshadowed samples
\* divided by usteps * vsteps: a value in [0, 1], 0 when every sample is
\* occluded and 1 when none is.  intensity_at of a PointLight is 1 when its
\* position is not shadowed from the point and 0 otherwise
C15_LightIntensity ==
    lit.op = "intensity_at" =>
        IF lit.light.kind = "AreaLight"
        THEN LET cells == lit.light.usteps * lit.light.vsteps
             IN  /\ Len(lit.tests) = cells
                 /\ \A k \in 1..cells : InCell(lit.light, k, lit.tests[k])
                 /\ lit.intensity = Color(Cardinality(Unshadowed), cells)
                 /\ lit.intensity.n >= 0
                 /\ lit.intensity.n <= lit.intensity.d
                 /\ Unshadowed = {} => lit.intensity = Color(0, 1)
                 /\ Unshadowed = 1..cells => lit.intensity = Color(1, 1)
        ELSE /\ lit.tests = <<lit.light.positions[1]>>
             /\ lit.intensity = IF 1 \in Unshadowed THEN Color(1, 1) ELSE Color(0, 1)

C15_Witness ==
    /\ lit.op = "intensity_at"
    /\ lit.light.kind = "AreaLight"
    /\ lit.light.usteps = 2
    /\ lit.light.vsteps = 2
    /\ lit.intensity = Color(3, 4)

-----------------------------------------------------------------------------
(* src/material.rs: Material::lighting, called with a light, a point, an   *)
(* eye vector, a normal and the intensity intensity_at returned.  The      *)
(* vectors are unit vectors along an axis and the light is on an axis      *)
(* through the point, so the cosines are -1, 0 or 1.                       *)

UnitVectors == {Vec(1, 0), Vec(-1, 0), Vec(0, 1), Vec(0, -1)}
LightingMaterials ==
    {DefaultMaterial,
     [DefaultMaterial EXCEPT !.ambient = 2, !.diffuse = 7, !.specular = 0],
     [DefaultMaterial EXCEPT !.ambient = 0, !.diffuse = 0, !.specular = 3]}
LightingLights ==
    {PointLight(VecScale(d, 10), IF d[1] = 0 THEN White ELSE Color(1, 2)) : d \in UnitVectors}
Alphas == {Color(0, 1), Color(1, 2), Color(1, 1)}

\* Material::lighting
LLighting ==
    /\ \E material \in LightingMaterials, light \in LightingLights,
          eyev \in UnitVectors, normal \in UnitVectors, intensity \in Alphas :
         lit' = [op |-> "lighting", material |-> material, light |-> light,
                 point |-> Vec(0, 0), eyev |-> eyev, normal |-> normal,
                 intensity |-> intensity,
                 terms |-> LightingTerms(material, light, Vec(0, 0), eyev, normal),
                 result |-> Lighting(material, light, Vec(0, 0), eyev, normal, intensity)]
    /\ UNCHANGED <<seq, xsVars, groupVars, worldVars, renderVars, miscVars>>

LightingInit == XsIdle /\ GroupIdle /\ WorldIdle /\ RestIdle

LightingNext == LLighting

SpecLighting == LightingInit /\ [][LightingNext]_vars

\* a - b on colours
ColorSub(a, b) == Color(a.n * b.d - b.n * a.d, a.d * b.d)

\* Material::lighting on the inputs of the last call, with another intensity
LitWith(intensity) ==
    Lighting(lit.material, lit.light, lit.point, lit.eyev, lit.normal, intensity)

\* C19: Material::lighting returns ambient + alpha * (diffuse + specular) for
\* the light intensity alpha: at alpha = 0 it is the ambient term, the colour
\* of the surface times the light's intensity times the ambient coefficient,
\* whatever the other inputs, and what it adds to the ambient term at alpha is
\* alpha times what it adds at alpha = 1
C19_LightingAttenuation ==
    lit.op = "lighting" =>
        LET ambient == ColorMul(ColorMul(Color(lit.material.color, 1), lit.light.intensity),
                                Tenths(lit.material.ambient))
        IN  /\ LitWith(Color(0, 1)) = ambient
            /\ lit.terms.ambient = ambient
            /\ lit.result = ColorAdd(ambient,
                                ColorMul(lit.intensity,
                                         ColorAdd(lit.terms.diffuse, lit.terms.specular)))
            /\ ColorSub(lit.result, ambient)
                  = ColorMul(lit.intensity, ColorSub(LitWith(Color(1, 1)), ambient))
            /\ lit.intensity = Color(0, 1) => lit.result = ambient

C19_Witness ==
    /\ lit.op = "lighting"
    /\ lit.intensity = Color(1, 2)
    /\ lit.terms.diffuse # Black
    /\ lit.terms.specular # Black
    /\ lit.terms.ambient # Black
    /\ lit.result # lit.terms.ambient

\* the cosine of incidence and the cosine between the reflected light
\* direction and the eye vector, for the last call of Material::lighting
LDotN == Dot(Normalize(VecAdd(lit.light.position, Neg(lit.point))), lit.normal)
RDotE ==
    LET lightv == Normalize(VecAdd(lit.light.position, Neg(lit.point)))
    IN  Dot(VecAdd(Neg(lightv), VecScale(lit.normal, 2 * Dot(lightv, lit.normal))),
            lit.eyev)

\* C20: in Material::lighting, when the cosine of incidence l.n is <= 0 the
\* diffuse and the specular term are both zero, for every eye vector, and the
\* specular term is non-zero only when l.n > 0 and the reflected light
\* direction has a positive dot product with the eye vector
C20_LightBehindSurface ==
    lit.op = "lighting" =>
        /\ LDotN <= 0 => (lit.terms.diffuse = Black /\ lit.terms.specular = Black)
        /\ lit.terms.specular # Black => (LDotN > 0 /\ RDotE > 0)

-----------------------------------------------------------------------------
(* Properties of World::shade_hit.  trace.last holds the frame of the last *)
(* color_at call that returned, with the three terms shade_hit had, and    *)
(* the value it returned.                                                  *)

\* 1 - r for a reflectance r
OneMinus(r) == Color(r.d - r.n, r.d)

\* the frame has the values of infos, so color_at of it has hit something
Shaded(frame) == frame.pc # "color_at"

\* C17: shade_hit returns direct + reflected * R + refracted * (1 - R), with
\* R = schlick(), when the material of the hit has reflective > 0 and
\* transparency > 0, and direct + reflected + refracted in every other case
C17_ShadeHitCombine ==
    trace.last.value.some =>
        LET frame == trace.last.frame
            material == frame.infos.object.material
            R == Schlick(frame.infos)
        IN  trace.last.value.value =
              IF material.reflective > 0 /\ material.transparency > 0
              THEN ColorAdd(frame.color,
                            ColorAdd(ColorMul(frame.reflected, R),
                                     ColorMul(frame.refracted, OneMinus(R))))
              ELSE ColorAdd(frame.color, ColorAdd(frame.reflected, frame.refracted))

C17_Witness ==
    /\ trace.last.value.some
    /\ trace.last.frame.infos.object.material.reflective > 0
    /\ trace.last.frame.infos.object.material.transparency > 0
    /\ trace.last.frame.reflected # Black
    /\ trace.last.frame.refracted # Black
    /\ Schlick(trace.last.frame.infos) = Color(1, 4)

\* what reflected_color and refracted_color have done in the frames of the stack
NoContribution ==
    \A k \in 1..Len(stack) :
       LET frame == stack[k]
           material == frame.infos.object.material
       IN  Shaded(frame) =>
             /\ material.reflective = 0 =>
                   /\ frame.pc # "reflected_color"
                   /\ frame.reflected = Black
             /\ material.transparency = 0 =>
                   /\ frame.pc # "refracted_color"
                   /\ frame.refracted = Black

\* shade_hit on a material that neither reflects nor transmits returns the
\* direct term
DirectAlone ==
    trace.last.value.some =>
        LET frame == trace.last.frame
            material == frame.infos.object.material
        IN  (material.reflective = 0 /\ material.transparency = 0) =>
               trace.last.value.value = LightingFrom(world, frame.infos, 1, Black)

\* a frame whose material neither reflects nor transmits calls color_at no more
NoRecursiveCall ==
    (/\ stack # <<>>
     /\ Shaded(Top)
     /\ Top.infos.object.material.reflective = 0
     /\ Top.infos.object.material.transparency = 0) =>
        /\ Len(stack') <= Len(stack)
        /\ trace'.casts = trace.casts

\* C18: for a hit on a material with reflective = 0 the reflected term is black
\* and no reflected ray is cast, with transparency = 0 the refracted term is
\* black and no refracted ray is cast, for every remaining; with both 0 the
\* frame makes no call of color_at and shade_hit returns the direct term alone
C18_NoContribution ==
    /\ []NoContribution
    /\ []DirectAlone
    /\ [][NoRecursiveCall]_vars

C18_Witness ==
    /\ Len(stack) = 2
    /\ stack[1].pc = "reflected_color"
    /\ stack[1].remaining = MaxRemaining
    /\ Top.pc = "combine"
    /\ Top.remaining > 0
    /\ Top.infos.object.material.reflective = 0
    /\ Top.infos.object.material.transparency = 0
    /\ Top.color # Black

-----------------------------------------------------------------------------
(* src/bounds.rs: a BoundingBox is made empty, points are added to it, and *)
(* another box is merged into it.                                          *)

BoxPoints == {Vec(x, z) : x \in {-2, 1}, z \in {0, 3}}
BoxMenu ==
    {EmptyBox, PlaneBounds}
    \cup {BoundingBox(pq[1], pq[2]) :
             pq \in {c \in BoxPoints \X BoxPoints : \A i \in Axes : c[1][i] <= c[2][i]}}

\* BoundingBox::default
BDefault ==
    /\ bx = NoCall
    /\ bx' = [op |-> "default", box |-> EmptyBox, before |-> EmptyBox, other |-> EmptyBox,
              points |-> <<>>]
    /\ UNCHANGED <<tf, cv, yaml, xsVars, groupVars, worldVars, renderVars, lightVars>>

\* BoundingBox::add_point
BAddPoint ==
    /\ bx.op \in {"default", "add_point"}
    /\ Len(bx.points) < MaxLen
    /\ \E p \in BoxPoints :
         bx' = [bx EXCEPT !.op = "add_point", !.box = AddPoint(bx.box, p),
                          !.before = bx.box, !.points = Append(@, p)]
    /\ UNCHANGED <<tf, cv, yaml, xsVars, groupVars, worldVars, renderVars, lightVars>>

\* BoundingBox::merge
BMerge ==
    /\ bx.op \in {"default", "add_point"}
    /\ \E other \in BoxMenu :
         bx' = [bx EXCEPT !.op = "merge", !.box = Merge(bx.box, other),
                          !.before = bx.box, !.other = other]
    /\ UNCHANGED <<tf, cv, yaml, xsVars, groupVars, worldVars, renderVars, lightVars>>

BoundsInit == XsIdle /\ GroupIdle /\ WorldIdle /\ RestIdle

BoundsNext ==
    \/ BDefault
    \/ BAddPoint
    \/ BMerge

SpecBounds == BoundsInit /\ [][BoundsNext]_vars

\* the least and the greatest of two coordinates, neither of them NaN
Least(a, b) == IF a < b THEN a ELSE b
Greatest(a, b) == IF a > b THEN a ELSE b

\* the box is exactly the component-wise min and max of the points
BoxOfPoints(box, points) ==
    \A i \in Axes :
       /\ \E k \in 1..Len(points) : box.min[i] = points[k][i]
       /\ \E k \in 1..Len(points) : box.max[i] = points[k][i]
       /\ \A k \in 1..Len(points) : box.min[i] <= points[k][i] /\ points[k][i] <= box.max[i]

\* C21: A.merge(B) has the component-wise minimum of A.min and B.min as its min
\* and the component-wise maximum of A.max and B.max as its max, for all boxes
\* A and B, the empty box among them; the points p1..pn added to the empty box
\* give exactly the component-wise min and max of the points
C21_MergeIsUnion ==
    /\ bx.op = "merge" =>
          \A i \in Axes :
             /\ bx.box.min[i] = Least(bx.before.min[i], bx.other.min[i])
             /\ bx.box.max[i] = Greatest(bx.before.max[i], bx.other.max[i])
    /\ bx.op = "add_point" => BoxOfPoints(bx.box, bx.points)

-----------------------------------------------------------------------------
(* The list World::color_at shades from *)

\* the objects the ray origin is inside of: entered at a negative t and not left
\* before t = 0, in the order the ray entered them
RECURSIVE Around(_, _, _)
Around(list, i, containers) ==
    IF i > Len(list) \/ list[i].t >= 0 THEN containers
    ELSE LET at == {k \in 1..Len(containers) : containers[k] = list[i].object}
         IN  Around(list, i + 1,
                    IF at = {} THEN Append(containers, list[i].object)
                    ELSE SelectSeq(containers, LAMBDA o : o # list[i].object))

-----------------------------------------------------------------------------
(* src/transformations.rs: Transform.  A matrix of the model is a scale    *)
(* and a translation per axis; its inverse has the scale 1 / s and the     *)
(* translation -t / s, kept as quotients n / d.                            *)

Ratio(n, d) == LET g == GCD(Abs(n), Abs(d)) IN [n |-> (Sign(d) * n) \div g, d |-> Abs(d) \div g]

\* DMat4::inverse
MatInverse(m) ==
    [s |-> [i \in Axes |-> Ratio(1, m.s[i])],
     t |-> [i \in Axes |-> Ratio(-m.t[i], m.s[i])]]

\* Transform::default and Transform::from_matrix
TransformDefault == [matrix |-> Identity, inverse_matrix |-> MatInverse(Identity)]
TransformFromMatrix(matrix) == [matrix |-> matrix, inverse_matrix |-> MatInverse(matrix)]

\* an operation that is multiplied on the right: the new operation acts first
WithOperationFirst(self, m) ==
    LET matrix == MatMul(self.matrix, m)
    IN  [matrix |-> matrix, inverse_matrix |-> MatInverse(matrix)]

\* Transform::with_translation / with_scale: self.matrix = M * self.matrix, then
\* self.inverse_matrix = self.matrix.inverse()
WithOperation(self, m) ==
    LET matrix == MatMul(m, self.matrix)
    IN  [matrix |-> matrix, inverse_matrix |-> MatInverse(matrix)]

WithTranslation(self, x, z) == WithOperation(self, Translation(x, z))
WithScale(self, x, z) == WithOperation(self, Scaling(x, z))

-----------------------------------------------------------------------------
(* src/yaml.rs: YamlLoader::load_from_str.  The document is a list of      *)
(* elements; an element is a hash with a `define` key, an `add` key, or    *)
(* neither.  A hash of material fields is a function from its keys; a      *)
(* transform list holds operations and names of defines.  The loader reads *)
(* the elements in order, so the model hands them to it one at a time.     *)

MaxElems == 4

\* an item of a transform list: an operation [name, arg, arg, arg] or a string
Op(name, arg) == [ref |-> "", op |-> name, arg |-> arg]
Ref(name) == [ref |-> name, op |-> "", arg |-> 0]

NoMaterial == [given |-> FALSE, name |-> "", hash |-> <<>>]
MaterialNamed(name) == [given |-> TRUE, name |-> name, hash |-> <<>>]
MaterialHash(hash) == [given |-> TRUE, name |-> "", hash |-> hash]
NoTransform == [given |-> FALSE, name |-> "", list |-> <<>>]
TransformNamed(name) == [given |-> TRUE, name |-> name, list |-> <<>>]
TransformList(list) == [given |-> TRUE, name |-> "", list |-> list]

\* - define: name / extend: extend / value: a hash or a list
Define(name, extend, hash, list, is_hash) ==
    [define |-> name, extend |-> extend, add |-> "", is_hash |-> is_hash,
     hash |-> hash, list |-> list, material |-> NoMaterial, transform |-> NoTransform]

\* - add: kind / material: .. / transform: ..
Add(kind, material, transform) ==
    [define |-> "", extend |-> "", add |-> kind, is_hash |-> FALSE,
     hash |-> <<>>, list |-> <<>>, material |-> material, transform |-> transform]

DefineNames == {"a", "b", "c", "t", "u", "v", "w", "x"}
NoDefine == Define("", "", <<>>, <<>>, FALSE)

\* Hash::extend: the keys of other are inserted over those of hash
HashExtend(hash, other) ==
    [k \in (DOMAIN hash) \cup (DOMAIN other) |->
        IF k \in DOMAIN other THEN other[k] ELSE hash[k]]

\* the result of a recursion that did not end: the stack overflows
Overflow == [ok |-> FALSE, panic |-> FALSE, value |-> <<>>]
Panicked == [ok |-> FALSE, panic |-> TRUE, value |-> <<>>]
Ok(value) == [ok |-> TRUE, panic |-> FALSE, value |-> value]

\* extend_with_defines of load_material; depth counts the calls on the stack
RECURSIVE ExtendMaterial(_, _, _, _)
ExtendMaterial(defines, name, hash, depth) ==
    IF depth > Cardinality(DefineNames) THEN Overflow
    ELSE IF name \notin DefineNames \/ defines[name] = NoDefine THEN Ok(hash)
    ELSE LET define_hash == defines[name]
             extended == IF define_hash.extend # ""
                         THEN ExtendMaterial(defines, define_hash.extend, hash, depth + 1)
                         ELSE Ok(hash)
         IN  IF ~extended.ok THEN extended
             ELSE IF ~define_hash.is_hash THEN Panicked
             ELSE Ok(HashExtend(extended.value, define_hash.hash))

\* extend_with_defines of load_transform: the define it extends, then the
\* defines its value names, then the whole value
RECURSIVE ExtendTransform(_, _, _, _)
RECURSIVE ExtendTransformRefs(_, _, _, _, _)
ExtendTransformRefs(defines, values, i, vec, depth) ==
    IF i > Len(values) \/ ~vec.ok THEN vec
    ELSE ExtendTransformRefs(defines, values, i + 1,
             IF values[i].ref # ""
             THEN ExtendTransform(defines, values[i].ref, vec.value, depth + 1)
             ELSE vec,
             depth)
ExtendTransform(defines, name, vec, depth) ==
    IF depth > Cardinality(DefineNames) THEN Overflow
    ELSE IF name \notin DefineNames \/ defines[name] = NoDefine THEN Ok(vec)
    ELSE LET define_hash == defines[name]
             extended == IF define_hash.extend # ""
                         THEN ExtendTransform(defines, define_hash.extend, vec, depth + 1)
                         ELSE Ok(vec)
             expanded == IF define_hash.is_hash THEN extended
                         ELSE ExtendTransformRefs(defines, define_hash.list, 1, extended,
                                                  depth)
         IN  IF ~expanded.ok THEN expanded
             ELSE IF define_hash.is_hash THEN Panicked
             ELSE Ok(expanded.value \o define_hash.list)

\* the material fields the loader reads, with Material::default for the others
MaterialKeys == {"ambient", "diffuse", "reflective"}
MaterialDefaults == [ambient |-> 1, diffuse |-> 9, reflective |-> 0]

\* YamlLoader::load_material
LoadMaterial(hash, defines) ==
    LET material_hash ==
            IF ~hash.material.given THEN Ok(<<>>)
            ELSE IF hash.material.name # ""
            THEN ExtendMaterial(defines, hash.material.name, <<>>, 1)
            ELSE Ok(hash.material.hash)
    IN  IF ~material_hash.ok THEN material_hash
        ELSE Ok([k \in MaterialKeys |->
                    IF k \in DOMAIN material_hash.value THEN material_hash.value[k]
                    ELSE MaterialDefaults[k]])

\* the loop of load_transform over the list of its hash: a name is expanded where
\* it stands, an operation is pushed
RECURSIVE TransformVecFrom(_, _, _, _)
TransformVecFrom(defines, values, i, vec) ==
    IF i > Len(values) \/ ~vec.ok THEN vec
    ELSE TransformVecFrom(defines, values, i + 1,
             IF values[i].ref # ""
             THEN ExtendTransform(defines, values[i].ref, vec.value, 1)
             ELSE Ok(Append(vec.value, values[i])))

\* the last loop of load_transform: the lists are applied, the strings skipped
RECURSIVE ApplyOperations(_, _, _)
ApplyOperations(vec, i, transform) ==
    IF i > Len(vec) THEN transform
    ELSE ApplyOperations(vec, i + 1,
             IF vec[i].ref # "" THEN transform
             ELSE IF vec[i].op = "translate"
             THEN WithTranslation(transform, vec[i].arg, 0)
             ELSE WithScale(transform, vec[i].arg, vec[i].arg))

\* YamlLoader::load_transform
LoadTransform(hash, defines) ==
    LET transform_vec ==
            IF ~hash.transform.given THEN Ok(<<>>)
            ELSE IF hash.transform.name # ""
            THEN ExtendTransform(defines, hash.transform.name, <<>>, 1)
            ELSE TransformVecFrom(defines, hash.transform.list, 1, Ok(<<>>))
    IN  IF ~transform_vec.ok THEN transform_vec
        ELSE Ok(ApplyOperations(transform_vec.value, 1, TransformDefault))

\* YamlLoader::load_object: None for a triangle, a panic for an unknown shape
LoadObject(hash, defines) ==
    IF hash.add \notin {"sphere", "plane", "cube", "triangle", "group"} THEN Panicked
    ELSE IF hash.add = "triangle" THEN Ok(None)
    ELSE LET material == LoadMaterial(hash, defines)
             transform == LoadTransform(hash, defines)
         IN  IF ~material.ok THEN material
             ELSE IF ~transform.ok THEN transform
             ELSE Ok(Some([shape |-> hash.add, material |-> material.value,
                           transform |-> transform.value]))

DefineMenu ==
    {Define("a", "", [ambient |-> 6], <<>>, TRUE),
     Define("b", "a", [diffuse |-> 7], <<>>, TRUE),
     Define("c", "b", [ambient |-> 2], <<>>, TRUE),
     Define("t", "", <<>>, <<Op("scale", 2)>>, FALSE),
     Define("u", "t", <<>>, <<Op("translate", 4)>>, FALSE),
     Define("v", "", <<>>, <<Op("translate", 4), Ref("t")>>, FALSE),
     Define("x", "", <<>>, <<Ref("t"), Op("translate", 4)>>, FALSE),
     Define("w", "w", <<>>, <<Op("scale", 2)>>, FALSE)}
AddKinds ==
    {"camera", "point-light", "area-light", "sphere", "plane", "cylinder", "triangle",
     "group", "mesh", "torus"}
AddMenu ==
    {Add(kind, NoMaterial, NoTransform) : kind \in AddKinds}
    \cup {Add("cube", material, NoTransform) :
             material \in {NoMaterial, MaterialNamed("a"), MaterialNamed("b"),
                           MaterialNamed("c"), MaterialNamed("t"),
                           MaterialHash([diffuse |-> 3])}}
    \cup {Add("cube", NoMaterial, transform) :
             transform \in {TransformNamed("u"), TransformNamed("v"), TransformNamed("x"),
                            TransformNamed("w"), TransformNamed("a"),
                            TransformList(<<Ref("u")>>),
                            TransformList(<<Op("translate", 4), Ref("t")>>)}}

\* load_from_str up to its loop: nothing is loaded yet
YLoadFromStr ==
    /\ yaml = NoCall
    /\ yaml' = [op |-> "load_from_str", outcome |-> "running", elems |-> 0,
                defines |-> [name \in DefineNames |-> NoDefine],
                objects |-> <<>>, lights |-> <<>>, camera |-> None,
                elem |-> NoDefine, before |-> [objects |-> <<>>, lights |-> <<>>]]
    /\ UNCHANGED <<bx, tf, cv, xsVars, groupVars, worldVars, renderVars, lightVars>>

\* one turn of the loop of load_from_str, on the next element of the document
YElem ==
    /\ yaml.op = "load_from_str"
    /\ yaml.outcome = "running"
    /\ yaml.elems < MaxElems
    /\ \E hash \in DefineMenu \cup AddMenu :
         LET defines == IF hash.define # ""
                        THEN [yaml.defines EXCEPT ![hash.define] = hash]
                        ELSE yaml.defines
             is_object == hash.add \in {"sphere", "plane", "cube", "triangle", "group"}
             object == IF is_object THEN LoadObject(hash, defines) ELSE Ok(None)
             seen == [yaml EXCEPT !.elems = @ + 1, !.defines = defines, !.elem = hash,
                                  !.before = [objects |-> yaml.objects,
                                              lights |-> yaml.lights]]
         IN  yaml' =
               IF hash.add = "" THEN seen
               ELSE IF hash.add = "camera"
               THEN [seen EXCEPT !.camera = Some(hash.add)]
               ELSE IF hash.add \in {"point-light", "area-light"}
               THEN [seen EXCEPT !.lights = Append(@, hash.add)]
               ELSE IF ~is_object THEN [seen EXCEPT !.outcome = "panic"]
               ELSE IF ~object.ok
               THEN [seen EXCEPT !.outcome = IF object.panic THEN "panic" ELSE "overflow"]
               ELSE IF ~object.value.some THEN [seen EXCEPT !.outcome = "panic"]
               ELSE [seen EXCEPT !.objects = Append(@, object.value.value)]
    /\ UNCHANGED <<bx, tf, cv, xsVars, groupVars, worldVars, renderVars, lightVars>>

\* load_from_str returns the loader
YReturn ==
    /\ yaml.op = "load_from_str"
    /\ yaml.outcome = "running"
    /\ yaml' = [yaml EXCEPT !.outcome = "loaded"]
    /\ UNCHANGED <<bx, tf, cv, xsVars, groupVars, worldVars, renderVars, lightVars>>

YamlInit == XsIdle /\ GroupIdle /\ WorldIdle /\ RestIdle

YamlNext ==
    \/ YLoadFromStr
    \/ YElem
    \/ YReturn

SpecYaml == YamlInit /\ [][YamlNext]_vars

-----------------------------------------------------------------------------
(* Properties of the scene loader *)

\* the last element made the loader push an object
ObjectLoaded ==
    /\ yaml.op = "load_from_str"
    /\ yaml.outcome # "panic"
    /\ yaml.outcome # "overflow"
    /\ Len(yaml.objects) = Len(yaml.before.objects) + 1

Defined(name) == name \in DefineNames /\ yaml.defines[name] # NoDefine

\* the value of the key along the extend chain from the define of the name: that
\* of the most derived define that has the key
RECURSIVE ChainValue(_, _)
ChainValue(name, key) ==
    IF ~Defined(name) THEN MaterialDefaults[key]
    ELSE IF key \in DOMAIN yaml.defines[name].hash THEN yaml.defines[name].hash[key]
    ELSE ChainValue(yaml.defines[name].extend, key)

\* the operations of the define of the name: those of its ancestors, then its
\* own, a name among them replaced where it stands by the operations of its define
RECURSIVE ChainOperations(_)
RECURSIVE InPlace(_, _)
InPlace(list, i) ==
    IF i > Len(list) THEN <<>>
    ELSE (IF list[i].ref # "" THEN ChainOperations(list[i].ref) ELSE <<list[i]>>)
         \o InPlace(list, i + 1)
ChainOperations(name) ==
    IF ~Defined(name) THEN <<>>
    ELSE ChainOperations(yaml.defines[name].extend) \o InPlace(yaml.defines[name].list, 1)

\* the matrix of a list of operations, the first acting first on a point
RECURSIVE MatrixOf(_, _)
MatrixOf(operations, n) ==
    IF n = 0 THEN Identity
    ELSE MatMul(IF operations[n].op = "translate" THEN Translation(operations[n].arg, 0)
                ELSE Scaling(operations[n].arg, operations[n].arg),
                MatrixOf(operations, n - 1))

\* the material of an object that names a define is the merge along the chain
MaterialResolved ==
    (ObjectLoaded /\ yaml.elem.material.given /\ yaml.elem.material.name # "") =>
        \A key \in MaterialKeys :
           yaml.objects[Len(yaml.objects)].material[key]
             = ChainValue(yaml.elem.material.name, key)

\* the transform of an object that names defines has their operations in place
TransformResolved ==
    (ObjectLoaded /\ yaml.elem.transform.given) =>
        LET operations == IF yaml.elem.transform.name # ""
                          THEN ChainOperations(yaml.elem.transform.name)
                          ELSE InPlace(yaml.elem.transform.list, 1)
        IN  yaml.objects[Len(yaml.objects)].transform.matrix
              = MatrixOf(operations, Len(operations))

\* C23: a material that names a define D is the key-wise merge of the value
\* maps along D's extend chain, root first, the more derived define overriding
\* its ancestors, with Material::default for the fields no define gives; a
\* transform that names a define is the operations of the ancestors followed
\* by the define's own, the names in a value expanded recursively in place
C23_DefinesResolved == MaterialResolved /\ TransformResolved

\* the kinds of `add` the scene format has
Accepted ==
    {"camera", "point-light", "area-light", "sphere", "plane", "cube", "cylinder",
     "triangle", "group", "mesh"}

\* what the last element added to the scene
AddedObjects == Len(yaml.objects) - Len(yaml.before.objects)
AddedLights == Len(yaml.lights) - Len(yaml.before.lights)

\* C24: an element whose `add` is camera, point-light, area-light, sphere,
\* plane, cube, cylinder, triangle, group or mesh, with no define to resolve or
\* only defines that resolve, is loaded and adds exactly one camera, light or
\* object; any other `add` aborts the loading
C24_AddKinds ==
    (yaml.op = "load_from_str" /\ yaml.elem.add # "") =>
        IF yaml.elem.add \in Accepted
        THEN (~yaml.elem.material.given /\ ~yaml.elem.transform.given) =>
                /\ yaml.outcome \in {"running", "loaded"}
                /\ IF yaml.elem.add = "camera"
                   THEN yaml.camera = Some("camera") /\ AddedObjects = 0 /\ AddedLights = 0
                   ELSE IF yaml.elem.add \in {"point-light", "area-light"}
                   THEN AddedLights = 1 /\ AddedObjects = 0
                   ELSE AddedObjects = 1 /\ AddedLights = 0
        ELSE yaml.outcome = "panic" /\ AddedObjects = 0 /\ AddedLights = 0

-----------------------------------------------------------------------------
(* src/canvas.rs: Canvas.  canvas[row] is the slice of the pixels from     *)
(* row * width to row * width + width, and canvas[row][col] the element    *)
(* col of that slice; an index outside the Vec or the slice panics.  A     *)
(* colour is one channel, a quotient n / d with d a power of two.          *)

MaxWrites == 3

CanvasSizes == {[width |-> 3, height |-> 1], [width |-> 2, height |-> 2],
                [width |-> 1, height |-> 3]}
Components == {Ratio(-1, 2), Ratio(1, 4), Ratio(1, 2), Ratio(1, 1), Ratio(3, 2)}

\* the slot of canvas[row][col] in a column-major canvas
CanvasSlotColumnMajor(self, row, col) == col * self.height + row

\* Index / IndexMut for Canvas, then the index into the row: the slot of
\* canvas[row][col] in pixels
CanvasSlot(self, row, col) ==
    LET start == row * self.width
    IN  start + col

\* canvas[row][col] is inside the Vec and inside the slice of the row
CanvasInRange(self, row, col) ==
    /\ row * self.width + self.width <= Len(self.pixels)
    /\ col < self.width

\* scale_color_component: the clamp, then (component * 255.0) as u8
ScaleColorComponent(component) ==
    LET clamped == IF component.n < 0 THEN Ratio(0, 1)
                   ELSE IF component.n > component.d THEN Ratio(1, 1)
                   ELSE component
    IN  (clamped.n * 255) \div clamped.d

\* Canvas::new
CNew ==
    /\ cv = NoCall
    /\ \E size \in CanvasSizes :
         cv' = [op |-> "new", width |-> size.width, height |-> size.height,
                pixels |-> [k \in 1..(size.width * size.height) |-> Ratio(0, 1)],
                before |-> <<>>, x |-> 0, y |-> 0, color |-> Ratio(0, 1), writes |-> 0,
                panicked |-> FALSE, image |-> <<>>]
    /\ UNCHANGED <<bx, tf, yaml, xsVars, groupVars, worldVars, renderVars, lightVars>>

\* canvas[y][x] = color
CSet ==
    /\ cv.op \in {"new", "set"}
    /\ ~cv.panicked
    /\ cv.writes < MaxWrites
    /\ \E x \in 0..cv.width, y \in 0..cv.height, color \in Components :
         cv' = IF CanvasInRange(cv, y, x)
               THEN [cv EXCEPT !.op = "set", !.before = cv.pixels, !.x = x, !.y = y,
                               !.color = color, !.writes = @ + 1,
                               !.pixels[CanvasSlot(cv, y, x) + 1] = color]
               ELSE [cv EXCEPT !.op = "set", !.before = cv.pixels, !.x = x, !.y = y,
                               !.color = color, !.panicked = TRUE]
    /\ UNCHANGED <<bx, tf, yaml, xsVars, groupVars, worldVars, renderVars, lightVars>>

\* Canvas::export: the pixel (x, y) of the image, row y and column x, is the
\* scaled colour of self[y][x]
CExport ==
    /\ cv.op \in {"new", "set"}
    /\ ~cv.panicked
    /\ cv' = [cv EXCEPT !.op = "export",
                        !.image = [row \in 1..cv.height |->
                                     [col \in 1..cv.width |->
                                        ScaleColorComponent(
                                            cv.pixels[CanvasSlot(cv, row - 1, col - 1) + 1])]]]
    /\ UNCHANGED <<bx, tf, yaml, xsVars, groupVars, worldVars, renderVars, lightVars>>

CanvasInit == XsIdle /\ GroupIdle /\ WorldIdle /\ RestIdle

CanvasNext ==
    \/ CNew
    \/ CSet
    \/ CExport

SpecCanvas == CanvasInit /\ [][CanvasNext]_vars

\* the pixels (x, y) of the canvas under test
CanvasPixels == (0..(cv.width - 1)) \X (0..(cv.height - 1))

\* the byte of a component: clamped to [0, 1], times 255, truncated
IsByteOf(byte, component) ==
    /\ byte \in 0..255
    /\ component.n <= 0 => byte = 0
    /\ component.n >= component.d => byte = 255
    /\ (component.n > 0 /\ component.n < component.d) =>
          (byte * component.d <= 255 * component.n
           /\ 255 * component.n < (byte + 1) * component.d)

\* C25: for 0 <= x < W and 0 <= y < H, canvas[y][x] is the slot y * W + x, and
\* distinct (x, y) are distinct slots; a new canvas is all black; a write to
\* canvas[y][x] changes that pixel and no other; export writes to the pixel
\* (x, y) the colour of canvas[y][x], clamped to [0, 1], multiplied by 255 and
\* truncated to a byte
C25_CanvasRowMajor ==
    cv.op # "none" =>
        /\ Len(cv.pixels) = cv.width * cv.height
        /\ \A p \in CanvasPixels :
              /\ CanvasInRange(cv, p[2], p[1])
              /\ CanvasSlot(cv, p[2], p[1]) = p[2] * cv.width + p[1]
              /\ \A q \in CanvasPixels :
                    CanvasSlot(cv, p[2], p[1]) = CanvasSlot(cv, q[2], q[1]) => p = q
        /\ cv.op = "new" => \A k \in 1..Len(cv.pixels) : cv.pixels[k] = Ratio(0, 1)
        /\ (cv.op = "set" /\ <<cv.x, cv.y>> \in CanvasPixels) =>
              /\ ~cv.panicked
              /\ \A k \in 1..Len(cv.pixels) :
                    cv.pixels[k] = IF k = cv.y * cv.width + cv.x + 1 THEN cv.color
                                   ELSE cv.before[k]
        /\ cv.op = "export" =>
              \A p \in CanvasPixels :
                 IsByteOf(cv.image[p[2] + 1][p[1] + 1],
                          cv.pixels[p[2] * cv.width + p[1] + 1])

C25_Witness ==
    /\ cv.op = "export"
    /\ cv.width = 2
    /\ cv.height = 2
    /\ cv.x = 0
    /\ cv.y = 1
    /\ cv.image = <<<<0, 63>>, <<255, 127>>>>

-----------------------------------------------------------------------------
(* src/shapes/group.rs: Group::divide call by call.  Object::divide on the  *)
(* last object of the pool runs as one step per call of divide: a call on a *)
(* container re-partitions its children when there are at least threshold   *)
(* of them and then calls divide on every child, in order; a call on a      *)
(* primitive returns at once.  gOp.pending holds the calls not yet made, as *)
(* the paths of child indices from the object divide was called on, the     *)
(* next call first.  Every call is a stack frame: the stack of the process  *)
(* holds MaxDepth nested calls, and one more overflows it.                  *)

MaxDivideLeaves == 3
MaxDivideGroups == 2
MaxThreshold == 3
MaxDepth == 6

\* Triangle::new(p, p, p) with p = (x, 0, z): the three vertices coincide and
\* Triangle::bounds is the point p on every axis
DegenerateTriangle(x, z) == Triangle(x, x, z)

\* the leaves that are subdivided, as (shape, builder transform): the cubes left
\* and right of x = 0, the cube around the origin and a triangle of one point
DivideLeafMenu ==
    {<<Cube, MatMul(Translation(-4, 0), Scaling(2, 2))>>,
     <<Cube, MatMul(Translation(4, 0), Scaling(2, 2))>>,
     <<Cube, Scaling(4, 4)>>,
     <<DegenerateTriangle(0, 0), Identity>>}

DivideThresholds == 0..MaxThreshold

\* the object at a path of child indices
RECURSIVE ObjectAt(_, _)
ObjectAt(object, path) ==
    IF path = <<>> THEN object
    ELSE ObjectAt(object.shape.objects[Head(path)], Tail(path))

\* the tree with the children of the container at a path replaced
RECURSIVE WithObjectsAt(_, _, _)
WithObjectsAt(object, path, objects) ==
    IF path = <<>> THEN [object EXCEPT !.shape.objects = objects]
    ELSE [object EXCEPT !.shape.objects[Head(path)] =
              WithObjectsAt(@, Tail(path), objects)]

\* Group::divide re-partitioning whatever the number of children
GroupDivideHereAlways(objects, threshold) ==
    LET parts == PartitionChildren(objects)
        withLeft == IF parts.left # <<>> THEN MakeSubgroup(parts.middle, parts.left)
                    ELSE parts.middle
    IN  IF parts.right # <<>> THEN MakeSubgroup(withLeft, parts.right) ELSE withLeft

\* Group::divide up to its loop over the children: the children of the group after
\* partition_children and make_subgroup
GroupDivideHere(objects, threshold) ==
    LET parts == PartitionChildren(objects)
        withLeft == IF parts.left # <<>> THEN MakeSubgroup(parts.middle, parts.left)
                    ELSE parts.middle
        withRight == IF parts.right # <<>> THEN MakeSubgroup(withLeft, parts.right)
                     ELSE withLeft
    IN  IF threshold <= Len(objects) THEN withRight ELSE objects

Dividing == gOp.name = "divide"
DivideOver == gOp.name \in {"divided", "overflow"}

\* Object::new on a primitive, then the builder's transform
DNewLeaf ==
    /\ ~Dividing /\ ~DivideOver
    /\ LeafCountFrom(pool, 1) < MaxDivideLeaves
    /\ \E l \in DivideLeafMenu :
         pool' = Append(pool, ApplyTransform(ObjectNew(l[1]), l[2]))
    /\ gOp' = GOp("new_leaf", Len(pool) + 1, <<>>)
    /\ UNCHANGED <<xsVars, worldVars, restVars>>

\* Group::with_objects on the objects built so far (none for Group::new alone),
\* then Object::new
DNewGroup ==
    /\ ~Dividing /\ ~DivideOver
    /\ GroupCountFrom(pool, 1) < MaxDivideGroups
    /\ pool' = <<ObjectNew(Group(pool))>>
    /\ gOp' = GOp("new_group", 1, <<>>)
    /\ UNCHANGED <<xsVars, worldVars, restVars>>

\* Object::divide is called on the last object built
DDivide ==
    /\ ~Dividing /\ ~DivideOver
    /\ pool # <<>>
    /\ \E threshold \in DivideThresholds :
         gOp' = [GOp("divide", Len(pool), pool[Len(pool)]) EXCEPT
                    !.threshold = threshold, !.pending = << <<>> >>]
    /\ UNCHANGED <<pool, xsVars, worldVars, restVars>>

\* one call of divide: Group::divide (Mesh::divide on its group of triangles) up
\* to its loop, whose calls on the children come before the calls still pending;
\* the `_ => ()` arm of Shape::divide for a primitive
DCall ==
    /\ Dividing
    /\ gOp.pending # <<>>
    /\ Len(Head(gOp.pending)) < MaxDepth
    /\ LET path == Head(gOp.pending)
           self == ObjectAt(pool[gOp.target], path)
           objects == GroupDivideHere(self.shape.objects, gOp.threshold)
       IN  IF IsContainer(self.shape)
           THEN /\ pool' = [pool EXCEPT ![gOp.target] = WithObjectsAt(@, path, objects)]
                /\ gOp' = [gOp EXCEPT !.pending =
                              [k \in 1..Len(objects) |-> Append(path, k)]
                              \o Tail(gOp.pending)]
           ELSE /\ pool' = pool
                /\ gOp' = [gOp EXCEPT !.pending = Tail(@)]
    /\ UNCHANGED <<xsVars, worldVars, restVars>>

\* the call that does not fit the stack: the process ends on a stack overflow
DOverflow ==
    /\ Dividing
    /\ gOp.pending # <<>>
    /\ Len(Head(gOp.pending)) >= MaxDepth
    /\ gOp' = [gOp EXCEPT !.name = "overflow"]
    /\ UNCHANGED <<pool, xsVars, worldVars, restVars>>

\* the outermost call returns
DReturn ==
    /\ Dividing
    /\ gOp.pending = <<>>
    /\ gOp' = [gOp EXCEPT !.name = "divided"]
    /\ UNCHANGED <<pool, xsVars, worldVars, restVars>>

DivideInit == XsIdle /\ GroupIdle /\ WorldIdle /\ RestIdle

DivideNext == DNewLeaf \/ DNewGroup \/ DDivide \/ DCall \/ DOverflow \/ DReturn

SpecDivide == DivideInit /\ [][DivideNext]_vars

\* a finished divide computed what the recursion GroupDivide computes
DivideAgrees ==
    gOp.name = "divided" => pool[gOp.target] = ObjectDivide(gOp.before, gOp.threshold)

\* a leaf whose box is one point
RECURSIVE HasPointLeaf(_)
HasPointLeaf(object) ==
    IF IsContainer(object.shape)
    THEN \E k \in 1..Len(object.shape.objects) : HasPointLeaf(object.shape.objects[k])
    ELSE object.bounds.min = object.bounds.max

\* the stack overflows only on a tree with a leaf whose box is one point
OverflowOnlyOnPoint == gOp.name = "overflow" => HasPointLeaf(gOp.before)

\* C26: divide(threshold) on a group with fewer children than threshold leaves the
\* children of the group the same objects in the same order, with no subgroup
\* added, and each of them is what divide(threshold) makes of it: a nested group
\* with at least threshold children is partitioned; divide on a primitive leaves
\* the object as it was
C26_DivideBelowThreshold ==
    gOp.name = "divided" =>
        LET before == gOp.before
            now == pool[gOp.target]
            SameButChildren(a, b) ==
                IF IsContainer(b.shape)
                THEN a = [b EXCEPT !.shape.objects = a.shape.objects]
                ELSE a = b
        IN  /\ ~IsContainer(before.shape) => now = before
            /\ (before.shape.kind = "Group"
                /\ Len(before.shape.objects) < gOp.threshold) =>
                   /\ Len(now.shape.objects) = Len(before.shape.objects)
                   /\ \A k \in 1..Len(before.shape.objects) :
                        /\ SameButChildren(now.shape.objects[k], before.shape.objects[k])
                        /\ now.shape.objects[k] =
                               ObjectDivide(before.shape.objects[k], gOp.threshold)

\* C26 witness: divide(2) on a group of one group of two cubes: the outer group
\* keeps its one child, whose two cubes are moved into two subgroups
C26_Witness ==
    /\ gOp.name = "divided"
    /\ gOp.threshold = 2
    /\ gOp.before.shape.kind = "Group"
    /\ Len(gOp.before.shape.objects) = 1
    /\ gOp.before.shape.objects[1].shape.kind = "Group"
    /\ Len(gOp.before.shape.objects[1].shape.objects) = 2
    /\ LET now == pool[gOp.target].shape.objects
       IN  /\ Len(now) = 1
           /\ Len(now[1].shape.objects) = 2
           /\ now[1].shape.objects[1].shape.objects =
                  <<gOp.before.shape.objects[1].shape.objects[1]>>
           /\ now[1].shape.objects[2].shape.objects =
                  <<gOp.before.shape.objects[1].shape.objects[2]>>

-----------------------------------------------------------------------------
(* src/transformations.rs: a chain of operations on the Transform of a      *)
(* TransformBuilder, and TransformBuilder::transform on the object of the   *)
(* builder.  tf.object is the object of the builder, tf.ops the matrices of *)
(* the operations of the running chain in call order, tf.built the          *)
(* transforms given to transform() so far, the first one first.             *)

MaxOps == 3
MaxBuilt == 2

\* the operations of a chain: a translation and a scale, which do not commute
OperationMenu == {<<"translate", 2, 4>>, <<"scale", 2, 2>>}

OperationMatrix(o) == IF o[1] = "translate" THEN Translation(o[2], o[3])
                      ELSE Scaling(o[2], o[3])

\* Object::new on a primitive and Object::with_translation / with_scale:
\* TransformBuilder::new(Transform::default(), self), then the first operation
TNew ==
    /\ tf = NoCall
    /\ \E shape \in {Cube, Triangle(0, 4, 0)}, o \in OperationMenu :
         tf' = [op |-> "operation",
                object |-> ObjectNew(shape),
                transform |-> IF o[1] = "translate"
                              THEN WithTranslation(TransformDefault, o[2], o[3])
                              ELSE WithScale(TransformDefault, o[2], o[3]),
                ops |-> <<OperationMatrix(o)>>,
                before |-> <<>>,
                built |-> <<>>]
    /\ UNCHANGED <<bx, cv, yaml, xsVars, groupVars, worldVars, renderVars, lightVars>>

\* TransformBuilder::with_translation / with_scale
TWith ==
    /\ tf # NoCall
    /\ tf.op = "operation"
    /\ Len(tf.ops) < MaxOps
    /\ \E o \in OperationMenu :
         tf' = [tf EXCEPT
                   !.transform = IF o[1] = "translate"
                                 THEN WithTranslation(@, o[2], o[3])
                                 ELSE WithScale(@, o[2], o[3]),
                   !.ops = Append(@, OperationMatrix(o))]
    /\ UNCHANGED <<bx, cv, yaml, xsVars, groupVars, worldVars, renderVars, lightVars>>

\* TransformBuilder::transform: apply_transform on the object of the builder
TTransform ==
    /\ tf # NoCall
    /\ tf.op = "operation"
    /\ tf' = [tf EXCEPT
                 !.op = "transform",
                 !.object = ApplyTransform(@, tf.transform.matrix),
                 !.before = tf.object,
                 !.built = Append(@, tf.transform.matrix)]
    /\ UNCHANGED <<bx, cv, yaml, xsVars, groupVars, worldVars, renderVars, lightVars>>

\* the built object goes on: a builder on the object itself, or on the group that
\* Group::with_objects and Object::new make of it, with a first operation
TAgain ==
    /\ tf # NoCall
    /\ tf.op = "transform"
    /\ Len(tf.built) < MaxBuilt
    /\ \E grouped \in BOOLEAN, o \in OperationMenu :
         tf' = [tf EXCEPT
                   !.op = "operation",
                   !.object = IF grouped THEN ObjectNew(Group(<<@>>)) ELSE @,
                   !.transform = IF o[1] = "translate"
                                 THEN WithTranslation(TransformDefault, o[2], o[3])
                                 ELSE WithScale(TransformDefault, o[2], o[3]),
                   !.ops = <<OperationMatrix(o)>>]
    /\ UNCHANGED <<bx, cv, yaml, xsVars, groupVars, worldVars, renderVars, lightVars>>

TransformInit == XsIdle /\ GroupIdle /\ WorldIdle /\ RestIdle

TransformNext == TNew \/ TWith \/ TTransform \/ TAgain

SpecTransform == TransformInit /\ [][TransformNext]_vars

\* the point a sequence of matrices takes a point to, the first matrix first
RECURSIVE Through(_, _)
Through(ops, p) ==
    IF ops = <<>> THEN p
    ELSE Through(Tail(ops), [i \in Axes |-> Head(ops).s[i] * p[i] + Head(ops).t[i]])

\* the matrix takes the points that fix it where the sequence takes them
SameMap(matrix, ops) ==
    \A p \in {Vec(0, 0), Vec(1, 1)} :
        [i \in Axes |-> matrix.s[i] * p[i] + matrix.t[i]] = Through(ops, p)

\* inverse * matrix is the identity: inverse.s * s = 1 and inverse.s * t + inverse.t = 0
IsInverseOf(inverse, matrix) ==
    \A i \in Axes :
        /\ inverse.s[i].n * matrix.s[i] = inverse.s[i].d
        /\ inverse.s[i].n * matrix.t[i] * inverse.t[i].d
               + inverse.t[i].n * inverse.s[i].d = 0

\* the leaf under the groups of the builder's object
RECURSIVE LeafOf(_)
LeafOf(object) ==
    IF IsContainer(object.shape) THEN LeafOf(object.shape.objects[1]) ELSE object

\* C27: after every operation of a chain the matrix of the Transform takes a point
\* through the operations in call order (Mn * ... * M1, op1 first) and the cached
\* inverse is the inverse of that matrix; transform() with the built T on a
\* primitive whose transform is E sets it to T * E, and the transforms given to
\* the groups around a leaf accumulate on the leaf, the outermost last
C27_OperationsPreMultiply ==
    tf # NoCall =>
        /\ tf.op = "operation" =>
               /\ SameMap(tf.transform.matrix, tf.ops)
               /\ IsInverseOf(tf.transform.inverse_matrix, tf.transform.matrix)
        /\ (tf.op = "transform" /\ ~IsContainer(tf.before.shape)) =>
               tf.object.transform = MatMul(tf.built[Len(tf.built)], tf.before.transform)
        /\ tf.op = "transform" => SameMap(LeafOf(tf.object).transform, tf.built)

\* C27 witness: a cube translated by (2, 4) and then scaled by 2, in a group that
\* is scaled by 2 and then translated by (2, 4): x |-> 4x + 10 and z |-> 4z + 20
\* on the cube
C27_Witness ==
    /\ tf # NoCall
    /\ tf.op = "transform"
    /\ tf.built = <<[s |-> Vec(2, 2), t |-> Vec(4, 8)], [s |-> Vec(2, 2), t |-> Vec(2, 4)]>>
    /\ tf.object.shape.kind = "Group"
    /\ tf.object.transform = Identity
    /\ LeafOf(tf.object).transform = [s |-> Vec(4, 4), t |-> Vec(10, 20)]

\* the primitives of a tree, from left to right
RECURSIVE Leaves(_)
RECURSIVE LeavesFrom(_, _)
LeavesFrom(objects, i) ==
    IF i > Len(objects) THEN <<>> ELSE Leaves(objects[i]) \o LeavesFrom(objects, i + 1)
Leaves(object) ==
    IF IsContainer(object.shape) THEN LeavesFrom(object.shape.objects, 1) ELSE <<object>>

\* C28: divide loses, duplicates and alters no primitive: at every call of a
\* running divide and when it has returned, the primitives of the tree, each with
\* its shape, transform, material, shadow flag and box, are those of the tree
\* divide was called on, as many times each
C28_DivideKeepsLeaves ==
    gOp.name \in {"divide", "divided", "overflow"} =>
        IsPermutation(Leaves(gOp.before), Leaves(pool[gOp.target]))

\* C28 witness: divide(1) has returned on a group of three different cubes, which
\* are now in another order under new subgroups
C28_Witness ==
    /\ gOp.name = "divided"
    /\ gOp.threshold = 1
    /\ gOp.before.shape.kind = "Group"
    /\ Len(Leaves(gOp.before)) = 3
    /\ \A i, j \in 1..3 : i # j => Leaves(gOp.before)[i] # Leaves(gOp.before)[j]
    /\ Leaves(pool[gOp.target]) # Leaves(gOp.before)
    /\ GroupCount(pool[gOp.target]) = 3

\* a group that divide turns into one subgroup of the same children: the call of
\* divide on that subgroup is the same call again
DivideRepeats(objects, threshold) ==
    GroupDivideHere(objects, threshold) = <<ObjectNew(Group(objects))>>

\* the call that overflows the stack is on a group whose divide repeats
OverflowRepeats ==
    gOp.name = "overflow" =>
        LET self == ObjectAt(pool[gOp.target], Head(gOp.pending))
        IN  /\ self.shape.kind = "Group"
            /\ DivideRepeats(self.shape.objects, gOp.threshold)

\* C29: Object::divide terminates on every finite tree and every threshold >= 0,
\* the trees with children whose boxes are degenerate, coincident or identical
\* included: the recursion into the subgroups divide has created comes to groups
\* that are not split again, so that no call of divide is nested deeper than the
\* stack holds and the divide that was called returns
C29_DivideTerminates == gOp.name # "overflow"

-----------------------------------------------------------------------------
(* The objects of the intersections of a world                              *)

\* the primitives of the trees of a world
WorldLeaves(w) == {LeavesFrom(w.objects, 1)[k] : k \in 1..Len(LeavesFrom(w.objects, 1))}

\* every intersection of the list refers to a primitive of the world
RefersToLeaves(w, list) ==
    \A k \in 1..Len(list) :
        /\ ~IsContainer(list[k].object.shape)
        /\ list[k].object \in WorldLeaves(w)

\* C30: every intersection Object::intersect returns for a Group or a Mesh refers
\* to a primitive under it and never to the container: the hit color_at shades is
\* a primitive of the world with its own material, the occluder is_shadowed finds
\* is a primitive with its own shadow flag, the triangles of a Mesh carry the
\* material set on the Mesh, and the material and the shadow flag of a Group are
\* not looked at
C30_HitsAreLeaves ==
    /\ \A k \in 1..Len(world.objects) :
           LET object == world.objects[k]
           IN  /\ \A r \in WorldRays : RefersToLeaves(world, ObjectIntersect(object, r).xs)
               /\ object.shape.kind = "Mesh" =>
                      \A j \in 1..Len(object.shape.objects) :
                          object.shape.objects[j].material = object.material
    /\ \A k \in 1..Len(stack) :
           stack[k].pc # "color_at" =>
               /\ RefersToLeaves(world, stack[k].xs)
               /\ stack[k].infos.object = stack[k].xs[stack[k].index].object
               /\ stack[k].color = LightingFrom(world, stack[k].infos, 1, Black)
    /\ trace.op = "is_shadowed" =>
           LET direction == VecAdd(trace.light, Neg(trace.point))
               list == WorldIntersects(world, Ray(trace.point, Normalize(direction)))
           IN  /\ RefersToLeaves(world, list)
               /\ trace.shadowed =>
                      \E k \in 1..Len(list) :
                          /\ list[k].object.shadow
                          /\ 0 <= list[k].t
                          /\ list[k].t < Length(direction)

\* C30 witness: a cube with the default material in a mirror group: the frame
\* shades the cube, with the material of the cube and no reflected ray
C30_Witness ==
    /\ stack # <<>>
    /\ Top.pc = "combine"
    /\ world.objects[1].shape.kind = "Group"
    /\ world.objects[1].material.reflective = 1
    /\ ~world.objects[1].shadow
    /\ Top.infos.object = world.objects[1].shape.objects[1]
    /\ Top.infos.object.material = DefaultMaterial
    /\ Top.infos.object.shadow
    /\ Top.remaining = MaxRemaining
    /\ Top.reflected = Black
    /\ trace.casts = 0

====
